---- MODULE Spec2Model ----
(***************************************************************************)
(* State capture / restore of the virtual GIC: KvmGICv3 (arch gicv3.rs),   *)
(* KvmGICv3ITS (arch gicv3_its.rs) and the devices Gic (devices gic.rs).   *)
(* One component is under verification per behaviour (kind).  Every        *)
(* device-attribute operation the component issues is appended to log,     *)
(* with the handle it was issued on and whether the device accepted it.    *)
(***************************************************************************)
EXTENDS Integers, Sequences, FiniteSets, TLC

\* ------------------------------------------------------------------ bounds
MaxVcpus == 2
MaxImage == 1
MaxNewVcpus == 4
MaxWrapSlack == 2
MaxSetupCalls == 2
MaxNumaNodes == 2
MaxAmlLen == 1

\* ------------------------------------------------- constants of the program
GITS_CTLR == 0
GITS_IIDR == 4
GITS_CBASER == 128
GITS_CWRITER == 136
GITS_CREADR == 144
GITS_BASER == 256
NumBaser == 8
SZ_64K == 65536
MAPPED_IO_START == 150994944
ARCH_GIC_V3_MAINT_IRQ == 9

GIC_V3_SNAPSHOT_ID == "gic-v3"
GIC_V3_ITS_SNAPSHOT_ID == "gic-v3-its"
GIC_SNAPSHOT_ID == "gic"

Kinds == {"KvmGICv3", "KvmGICv3ITS", "Gic"}

VARIABLES
    kind,           \* which component this behaviour is about
    vcpu_count,     \* number of vCPUs, fixed at construction
    gicr_typers,    \* the component's gicr_typers field
    gic_id,         \* Gic.id, the constructor's id string (devices Gic only)
    device_entity,  \* Gic.device_entity is Some (always TRUE for the Kvm variants)
    inplace_reads,  \* build keeps the values the kernel stores through &its_*_state
    dev,            \* register state behind the device handle(s)
    snap,           \* the Snapshot snapshot() returned, until the next call on the component
    txn,            \* the entry point last called
    log,            \* device operations issued by the last call, in order
    engine,         \* what state()/set_state() returned inside the last call
    outcome,        \* what the last call returned to its caller
    properties,     \* the properties / gic_properties field: [u64; 4]
    msi_properties, \* the msi_properties field of KvmGICv3ITS: [u64; 2]
    restore_arg,    \* the Snapshot the last restore() was called with, and where it came from
    objects,        \* the variant objects that exist, each with the handles it holds
    handles,        \* the Option handles the last create_device was given
    acpi_env,       \* what create_acpi_tables takes from the build and the managers
    numa_nodes,     \* the NumaNodes create_acpi_tables is called with
    guest_mem,      \* the slices written to guest memory, in the order written
    acpi_ret        \* what create_acpi_tables returned

vars == <<kind, vcpu_count, gicr_typers, gic_id, device_entity, inplace_reads,
          dev, snap, txn, log, engine, outcome, properties, msi_properties,
          restore_arg, objects, handles, acpi_env, numa_nodes, guest_mem, acpi_ret>>

\* ------------------------------------------------------------- the devices
GIC == "gic_v3_device"
ITS == "gic_v3_its_device"

ItsRegOffsets ==
    {GITS_CTLR, GITS_IIDR, GITS_CBASER, GITS_CWRITER, GITS_CREADR}
    \cup {GITS_BASER + i * 8 : i \in 0..(NumBaser - 1)}

\* Register contents the guest can have produced: image 0 is the reset state,
\* every register of image v holds a value that identifies the register.
GicImage(v, n) ==
    [gicd_ctlr |-> v,
     dist |-> IF v = 0 THEN 0 ELSE 1000 * v + 1,
     rdist |-> [t \in 0..(n - 1) |-> IF v = 0 THEN 0 ELSE 1000 * v + 10 + t],
     icc |-> [t \in 0..(n - 1) |-> IF v = 0 THEN 0 ELSE 1000 * v + 20 + t]]

ItsImage(v) == [off \in ItsRegOffsets |-> IF v = 0 THEN 0 ELSE 1000 * v + 500 + off]

HasIts(k) == k = "KvmGICv3ITS"

DevImage(k, v, n) ==
    [gic |-> GicImage(v, n), its |-> ItsImage(IF HasIts(k) THEN v ELSE 0)]

\* ------------------------------------------------------- the memory layout
\* u64 values.  A u64 is written as the integer nearest to zero that is
\* congruent to it modulo 2^64: a value below 2^63 as itself, the value
\* 2^64 - m as -m.  Subtraction of u64 values wraps around modulo 2^64 in a
\* build without overflow checks and panics in a build with them.
wrapping_sub(a, b) == a - b

\* a < b as unsigned 64-bit values.
U64Lt(a, b) == IF (a < 0) = (b < 0) THEN a < b ELSE b < 0

\* a - b leaves the range of u64.
Underflows(a, b) == U64Lt(a, b)

KVM_VGIC_V3_DIST_SIZE == SZ_64K
KVM_VGIC_V3_REDIST_SIZE == 2 * SZ_64K
KVM_VGIC_V3_ITS_SIZE == 2 * SZ_64K

get_dist_addr == wrapping_sub(MAPPED_IO_START, KVM_VGIC_V3_DIST_SIZE)

get_dist_size == KVM_VGIC_V3_DIST_SIZE

get_redists_size_per_64k(vcpus) == vcpus * SZ_64K

get_redists_size(vcpus) == vcpus * KVM_VGIC_V3_REDIST_SIZE

get_redists_addr_half(vcpus) == wrapping_sub(get_dist_addr, vcpus * SZ_64K)

get_redists_addr(vcpus) == wrapping_sub(get_dist_addr, get_redists_size(vcpus))

get_msi_size == KVM_VGIC_V3_ITS_SIZE

get_msi_addr_above(vcpus) == get_redists_addr(vcpus) + get_msi_size

get_msi_addr(vcpus) == wrapping_sub(get_redists_addr(vcpus), get_msi_size)

\* ------------------------------------------------------ device operations
\* One call the component makes on a device handle: fn is the function called,
\* dev the handle, grp/attr/off the attribute addressed, set the direction,
\* val the words written, arg the gicr_typers passed to the codec, and err the
\* variant the caller wraps a failure in (map_err).
CtrlStep(fn, d, attr, err) ==
    [fn |-> fn, dev |-> d, grp |-> "KVM_DEV_ARM_VGIC_GRP_CTRL", attr |-> attr,
     off |-> 0, set |-> TRUE, val |-> <<>>, arg |-> <<>>, err |-> err]

CodecStep(fn, d, set, val, arg, err) ==
    [fn |-> fn, dev |-> d, grp |-> "", attr |-> "", off |-> 0, set |-> set,
     val |-> val, arg |-> arg, err |-> err]

ItsRegStep(fn, d, attr, off, set, val, err) ==
    [fn |-> fn, dev |-> d, grp |-> "KVM_DEV_ARM_VGIC_GRP_ITS_REGS", attr |-> attr,
     off |-> off, set |-> set, val |-> val, arg |-> <<>>, err |-> err]

\* save_pending_tables(gic): set_device_attr(CTRL, SAVE_PENDING_TABLES).
save_pending_tables(d, err) ==
    CtrlStep("save_pending_tables", d, "KVM_DEV_ARM_VGIC_SAVE_PENDING_TABLES", err)

\* The codecs of dist_regs.rs, redist_regs.rs and icc_regs.rs.
read_ctlr(d, err) == CodecStep("read_ctlr", d, FALSE, <<>>, <<>>, err)
write_ctlr(d, v, err) == CodecStep("write_ctlr", d, TRUE, <<v>>, <<>>, err)
get_dist_regs(d, err) == CodecStep("get_dist_regs", d, FALSE, <<>>, <<>>, err)
set_dist_regs(d, v, err) == CodecStep("set_dist_regs", d, TRUE, v, <<>>, err)
get_redist_regs(d, typers, err) == CodecStep("get_redist_regs", d, FALSE, <<>>, typers, err)
set_redist_regs(d, typers, v, err) == CodecStep("set_redist_regs", d, TRUE, v, typers, err)
get_icc_regs(d, typers, err) == CodecStep("get_icc_regs", d, FALSE, <<>>, typers, err)
set_icc_regs(d, typers, v, err) == CodecStep("set_icc_regs", d, TRUE, v, typers, err)

\* gic_v3_its_attr_access_32 / _64: get or set one attribute of the ITS handle.
gic_v3_its_attr_access_32(d, grp, attr, off, v, set, err) ==
    [ItsRegStep("gic_v3_its_attr_access_32", d, attr, off, set,
                IF set THEN <<v>> ELSE <<>>, err) EXCEPT !.grp = grp]

gic_v3_its_attr_access_64(d, grp, attr, off, v, set, err) ==
    [ItsRegStep("gic_v3_its_attr_access_64", d, attr, off, set,
                IF set THEN <<v>> ELSE <<>>, err) EXCEPT !.grp = grp]

ITS_REGS == "KVM_DEV_ARM_VGIC_GRP_ITS_REGS"
CTRL == "KVM_DEV_ARM_VGIC_GRP_CTRL"

\* What the device answers to a read it accepts.
DevRead(d, s) ==
    CASE s.fn = "read_ctlr" -> <<d.gic.gicd_ctlr>>
      [] s.fn = "get_dist_regs" -> <<d.gic.dist>>
      [] s.fn = "get_redist_regs" -> [i \in 1..Len(s.arg) |-> d.gic.rdist[s.arg[i]]]
      [] s.fn = "get_icc_regs" -> [i \in 1..Len(s.arg) |-> d.gic.icc[s.arg[i]]]
      [] s.grp = ITS_REGS /\ ~s.set -> <<d.its[s.off]>>
      [] OTHER -> <<>>

\* The block of the vCPU with typer t after a per-vCPU write of words v for typers.
BlockAfter(old, t, typers, v) ==
    LET hits == {i \in 1..Len(typers) : typers[i] = t}
    IN  IF hits = {} THEN old
        ELSE v[CHOOSE i \in hits : \A j \in hits : j <= i]

\* The registers after a write the device accepts.
DevWrite(d, s) ==
    CASE s.fn = "write_ctlr" -> [d EXCEPT !.gic.gicd_ctlr = s.val[1]]
      [] s.fn = "set_dist_regs" -> [d EXCEPT !.gic.dist = s.val[1]]
      [] s.fn = "set_redist_regs" ->
            [d EXCEPT !.gic.rdist =
                [t \in DOMAIN d.gic.rdist |-> BlockAfter(d.gic.rdist[t], t, s.arg, s.val)]]
      [] s.fn = "set_icc_regs" ->
            [d EXCEPT !.gic.icc =
                [t \in DOMAIN d.gic.icc |-> BlockAfter(d.gic.icc[t], t, s.arg, s.val)]]
      [] s.grp = ITS_REGS /\ s.set -> [d EXCEPT !.its[s.off] = s.val[1]]
      [] OTHER -> d

\* The device rejects a codec call that addresses a redistributor it does not have
\* or that brings a block list of the wrong shape.
DevRejects(d, s) ==
    \/ /\ s.fn \in {"get_redist_regs", "get_icc_regs", "set_redist_regs", "set_icc_regs"}
       /\ \E i \in 1..Len(s.arg) : s.arg[i] \notin DOMAIN d.gic.rdist
    \/ /\ s.fn \in {"set_redist_regs", "set_icc_regs"}
       /\ Len(s.val) # Len(s.arg)
    \/ /\ s.fn = "set_dist_regs"
       /\ Len(s.val) # 1

\* ------------------------------------------------------------ the engines
\* Each engine is a straight line of calls, each followed by `?`: the list below
\* is that line in program order, and Issued cuts it at the first call that fails.

\* A faulty capture: the distributor control register is read before the flush.
KvmGICv3_state_steps_flush_late(typers) ==
    << read_ctlr(GIC, "SaveDistributorCtrlRegisters"),
       save_pending_tables(GIC, "SavePendingTables"),
       get_dist_regs(GIC, "SaveDistributorRegisters"),
       get_redist_regs(GIC, typers, "SaveRedistributorRegisters"),
       get_icc_regs(GIC, typers, "SaveICCRegisters") >>

\* A capture that clears the distributor control register after reading it.
KvmGICv3_state_steps_clearing_ctlr(typers) ==
    << save_pending_tables(GIC, "SavePendingTables"),
       read_ctlr(GIC, "SaveDistributorCtrlRegisters"),
       write_ctlr(GIC, 0, "SaveDistributorCtrlRegisters"),
       get_dist_regs(GIC, "SaveDistributorRegisters"),
       get_redist_regs(GIC, typers, "SaveRedistributorRegisters"),
       get_icc_regs(GIC, typers, "SaveICCRegisters") >>

\* KvmGICv3::state
KvmGICv3_state_steps(typers) ==
    << save_pending_tables(GIC, "SavePendingTables"),
       read_ctlr(GIC, "SaveDistributorCtrlRegisters"),
       get_dist_regs(GIC, "SaveDistributorRegisters"),
       get_redist_regs(GIC, typers, "SaveRedistributorRegisters"),
       get_icc_regs(GIC, typers, "SaveICCRegisters") >>

\* A faulty restore: a failing CPU-interface write is wrapped in the save variant.
KvmGICv3_set_state_steps_icc_as_save(typers, state) ==
    << write_ctlr(GIC, state.gicd_ctlr, "RestoreDistributorCtrlRegisters"),
       set_dist_regs(GIC, state.dist, "RestoreDistributorRegisters"),
       set_redist_regs(GIC, typers, state.rdist, "RestoreRedistributorRegisters"),
       set_icc_regs(GIC, typers, state.icc, "SaveICCRegisters") >>

\* A restore that addresses the CPU interfaces with typers of zero.
KvmGICv3_set_state_steps_icc_zero_typers(typers, state) ==
    << write_ctlr(GIC, state.gicd_ctlr, "RestoreDistributorCtrlRegisters"),
       set_dist_regs(GIC, state.dist, "RestoreDistributorRegisters"),
       set_redist_regs(GIC, typers, state.rdist, "RestoreRedistributorRegisters"),
       set_icc_regs(GIC, [i \in 1..Len(typers) |-> 0], state.icc, "RestoreICCRegisters") >>

\* KvmGICv3::set_state
KvmGICv3_set_state_steps(typers, state) ==
    << write_ctlr(GIC, state.gicd_ctlr, "RestoreDistributorCtrlRegisters"),
       set_dist_regs(GIC, state.dist, "RestoreDistributorRegisters"),
       set_redist_regs(GIC, typers, state.rdist, "RestoreRedistributorRegisters"),
       set_icc_regs(GIC, typers, state.icc, "RestoreICCRegisters") >>

\* Gic::state (devices)
Gic_state_steps(typers) ==
    << save_pending_tables(GIC, "SaveRegisters(RAM pending tables)"),
       read_ctlr(GIC, "SaveRegisters(distributor control register)"),
       get_dist_regs(GIC, "SaveRegisters(distributor registers)"),
       get_redist_regs(GIC, typers, "SaveRegisters(redistributor registers)"),
       get_icc_regs(GIC, typers, "SaveRegisters(CPU interface registers)") >>

\* A faulty restore: the distributor registers are written before the control register.
Gic_set_state_steps_ctlr_second(typers, state) ==
    << set_dist_regs(GIC, state.dist, "RestoreRegisters(distributor registers)"),
       write_ctlr(GIC, state.gicd_ctlr, "RestoreRegisters(distributor control register)"),
       set_redist_regs(GIC, typers, state.rdist, "RestoreRegisters(redistributor registers)"),
       set_icc_regs(GIC, typers, state.icc, "SaveRegisters(CPU interface registers)") >>

\* Gic::set_state (devices)
Gic_set_state_steps(typers, state) ==
    << write_ctlr(GIC, state.gicd_ctlr, "RestoreRegisters(distributor control register)"),
       set_dist_regs(GIC, state.dist, "RestoreRegisters(distributor registers)"),
       set_redist_regs(GIC, typers, state.rdist, "RestoreRegisters(redistributor registers)"),
       set_icc_regs(GIC, typers, state.icc, "SaveRegisters(CPU interface registers)") >>

\* A GIC block of the ITS capture that reads the CPU interfaces before the
\* redistributors.
KvmGICv3ITS_state_gic_steps_icc_first(typers) ==
    << save_pending_tables(GIC, "SavePendingTables"),
       read_ctlr(GIC, "SaveDistributorCtrlRegisters"),
       get_dist_regs(GIC, "SaveDistributorRegisters"),
       get_icc_regs(GIC, typers, "SaveICCRegisters"),
       get_redist_regs(GIC, typers, "SaveRedistributorRegisters") >>

\* KvmGICv3ITS::state, the GIC block (lines 135-147)
KvmGICv3ITS_state_gic_steps(typers) ==
    << save_pending_tables(GIC, "SavePendingTables"),
       read_ctlr(GIC, "SaveDistributorCtrlRegisters"),
       get_dist_regs(GIC, "SaveDistributorRegisters"),
       get_redist_regs(GIC, typers, "SaveRedistributorRegisters"),
       get_icc_regs(GIC, typers, "SaveICCRegisters") >>

\* A faulty ITS capture: a failing CTLR read is wrapped in the CBASER variant.
KvmGICv3ITS_state_its_steps_ctlr_mistagged ==
    [i \in 1..NumBaser |->
        gic_v3_its_attr_access_64(ITS, ITS_REGS, "GITS_BASER", GITS_BASER + (i - 1) * 8,
                                  0, FALSE, "SaveITSBASER")]
    \o << gic_v3_its_attr_access_32(ITS, ITS_REGS, "GITS_CTLR", GITS_CTLR, 0, FALSE, "SaveITSCBASER"),
          gic_v3_its_attr_access_64(ITS, ITS_REGS, "GITS_CBASER", GITS_CBASER, 0, FALSE, "SaveITSCBASER"),
          gic_v3_its_attr_access_64(ITS, ITS_REGS, "GITS_CREADR", GITS_CREADR, 0, FALSE, "SaveITSCREADR"),
          gic_v3_its_attr_access_64(ITS, ITS_REGS, "GITS_CWRITER", GITS_CWRITER, 0, FALSE, "SaveITSCWRITER"),
          gic_v3_its_attr_access_32(ITS, ITS_REGS, "GITS_IIDR", GITS_IIDR, 0, FALSE, "SaveITSIIDR") >>

\* KvmGICv3ITS::state, the ITS block (lines 149-223): for i in 0..8 BASER[i],
\* then CTLR, CBASER, CREADR, CWRITER, IIDR.
KvmGICv3ITS_state_its_steps ==
    [i \in 1..NumBaser |->
        gic_v3_its_attr_access_64(ITS, ITS_REGS, "GITS_BASER", GITS_BASER + (i - 1) * 8,
                                  0, FALSE, "SaveITSBASER")]
    \o << gic_v3_its_attr_access_32(ITS, ITS_REGS, "GITS_CTLR", GITS_CTLR, 0, FALSE, "SaveITSCTLR"),
          gic_v3_its_attr_access_64(ITS, ITS_REGS, "GITS_CBASER", GITS_CBASER, 0, FALSE, "SaveITSCBASER"),
          gic_v3_its_attr_access_64(ITS, ITS_REGS, "GITS_CREADR", GITS_CREADR, 0, FALSE, "SaveITSCREADR"),
          gic_v3_its_attr_access_64(ITS, ITS_REGS, "GITS_CWRITER", GITS_CWRITER, 0, FALSE, "SaveITSCWRITER"),
          gic_v3_its_attr_access_32(ITS, ITS_REGS, "GITS_IIDR", GITS_IIDR, 0, FALSE, "SaveITSIIDR") >>

KvmGICv3ITS_state_steps(typers) ==
    KvmGICv3ITS_state_gic_steps(typers) \o KvmGICv3ITS_state_its_steps

\* KvmGICv3ITS::set_state, the GIC block (lines 241-251)
KvmGICv3ITS_set_state_gic_steps(typers, state) ==
    << write_ctlr(GIC, state.gicd_ctlr, "RestoreDistributorCtrlRegisters"),
       set_dist_regs(GIC, state.dist, "RestoreDistributorRegisters"),
       set_redist_regs(GIC, typers, state.rdist, "RestoreRedistributorRegisters"),
       set_icc_regs(GIC, typers, state.icc, "RestoreICCRegisters") >>

\* KvmGICv3ITS::set_state, the ITS block (lines 253-323), piece by piece.
its_iidr_write(state) ==
    gic_v3_its_attr_access_32(ITS, ITS_REGS, "GITS_IIDR", GITS_IIDR, state.its_iidr, TRUE,
                              "RestoreITSIIDR")

its_cbaser_write(state) ==
    gic_v3_its_attr_access_64(ITS, ITS_REGS, "GITS_CBASER", GITS_CBASER, state.its_cbaser,
                              TRUE, "RestoreITSCBASER")

\* A faulty CREADR write: the register is given the write pointer.
its_creadr_write_from_cwriter(state) ==
    gic_v3_its_attr_access_64(ITS, ITS_REGS, "GITS_CREADR", GITS_CREADR, state.its_cwriter,
                              TRUE, "RestoreITSCREADR")

its_creadr_write(state) ==
    gic_v3_its_attr_access_64(ITS, ITS_REGS, "GITS_CREADR", GITS_CREADR, state.its_creadr,
                              TRUE, "RestoreITSCREADR")

its_cwriter_write(state) ==
    gic_v3_its_attr_access_64(ITS, ITS_REGS, "GITS_CWRITER", GITS_CWRITER, state.its_cwriter,
                              TRUE, "RestoreITSCWRITER")

\* A faulty loop: BASER[i] is given its_baser[7 - i].
its_baser_writes_reversed(state) ==
    [i \in 1..NumBaser |->
        gic_v3_its_attr_access_64(ITS, ITS_REGS, "GITS_BASER", GITS_BASER + (i - 1) * 8,
                                  state.its_baser[NumBaser + 1 - i], TRUE, "RestoreITSBASER")]

\* for i in 0..8 { BASER[i] <- state.its_baser[i] }
its_baser_writes(state) ==
    [i \in 1..NumBaser |->
        gic_v3_its_attr_access_64(ITS, ITS_REGS, "GITS_BASER", GITS_BASER + (i - 1) * 8,
                                  state.its_baser[i], TRUE, "RestoreITSBASER")]

\* A restore-tables op sent to the GIC handle.
its_restore_tables_on_gic ==
    gic_v3_its_attr_access_64(GIC, CTRL, "KVM_DEV_ARM_ITS_RESTORE_TABLES", 0, 0, TRUE,
                              "RestoreITSRestoreTables")

its_restore_tables ==
    gic_v3_its_attr_access_64(ITS, CTRL, "KVM_DEV_ARM_ITS_RESTORE_TABLES", 0, 0, TRUE,
                              "RestoreITSRestoreTables")

its_ctlr_write(state) ==
    gic_v3_its_attr_access_32(ITS, ITS_REGS, "GITS_CTLR", GITS_CTLR, state.its_ctlr, TRUE,
                              "RestoreITSCTLR")

\* A faulty ITS block: CTLR is written before the tables are restored.
KvmGICv3ITS_set_state_its_steps_ctlr_early(state) ==
    << its_iidr_write(state), its_cbaser_write(state), its_creadr_write(state),
       its_cwriter_write(state) >>
    \o its_baser_writes(state)
    \o << its_ctlr_write(state), its_restore_tables >>

\* A faulty ITS block: the command-queue pointers are written in the order the
\* capture reads them (CBASER, CWRITER after CREADR swapped).
KvmGICv3ITS_set_state_its_steps_queue_swapped(state) ==
    << its_iidr_write(state), its_cbaser_write(state), its_cwriter_write(state),
       its_creadr_write(state) >>
    \o its_baser_writes(state)
    \o << its_restore_tables, its_ctlr_write(state) >>

\* The ITS block in program order: IIDR, CBASER, CREADR, CWRITER, BASER[0..7],
\* the restore-tables control op, CTLR.
KvmGICv3ITS_set_state_its_steps(state) ==
    << its_iidr_write(state), its_cbaser_write(state), its_creadr_write(state),
       its_cwriter_write(state) >>
    \o its_baser_writes(state)
    \o << its_restore_tables, its_ctlr_write(state) >>

\* A faulty restore: the ITS block runs before the GIC block.
KvmGICv3ITS_set_state_steps_its_first(typers, state) ==
    KvmGICv3ITS_set_state_its_steps(state) \o KvmGICv3ITS_set_state_gic_steps(typers, state)

KvmGICv3ITS_set_state_steps(typers, state) ==
    KvmGICv3ITS_set_state_gic_steps(typers, state) \o KvmGICv3ITS_set_state_its_steps(state)

StateSteps(k, typers) ==
    CASE k = "KvmGICv3" -> KvmGICv3_state_steps(typers)
      [] k = "KvmGICv3ITS" -> KvmGICv3ITS_state_steps(typers)
      [] k = "Gic" -> Gic_state_steps(typers)

SetStateSteps(k, typers, state) ==
    CASE k = "KvmGICv3" -> KvmGICv3_set_state_steps(typers, state)
      [] k = "KvmGICv3ITS" -> KvmGICv3ITS_set_state_steps(typers, state)
      [] k = "Gic" -> Gic_set_state_steps(typers, state)

\* `?` after every call: the index of the first call that fails (0: none fails).
\* faults are the positions of the calls the device rejects for reasons of its own.
FirstFail(d, steps, faults) ==
    LET bad == {i \in 1..Len(steps) : i \in faults \/ DevRejects(d, steps[i])}
    IN  IF bad = {} THEN 0 ELSE CHOOSE i \in bad : \A j \in bad : i <= j

\* The calls issued: all of them, or those up to and including the failing one.
Issued(steps, ff) == IF ff = 0 THEN steps ELSE SubSeq(steps, 1, ff)

\* The record of an issued call: the call without its error wrapper, the words the
\* device returned (a read) or was given (a write), and whether it accepted.
LogEntry(d, s, ok) ==
    [fn |-> s.fn, dev |-> s.dev, grp |-> s.grp, attr |-> s.attr, off |-> s.off,
     set |-> s.set, arg |-> s.arg, ok |-> ok,
     val |-> IF s.set THEN s.val ELSE IF ok THEN DevRead(d, s) ELSE <<>>]

\* A runner that issues the failing call a second time before giving up.
LogOf_retry_failed(d, steps, ff) ==
    LET l == [i \in 1..Len(Issued(steps, ff)) |-> LogEntry(d, steps[i], i # ff)]
    IN  IF ff = 0 THEN l ELSE Append(l, l[Len(l)])

LogOf(d, steps, ff) ==
    [i \in 1..Len(Issued(steps, ff)) |-> LogEntry(d, steps[i], i # ff)]

\* The registers after the first n calls were accepted.
RECURSIVE ApplyWrites(_, _, _)
ApplyWrites(d, steps, n) ==
    IF n = 0 THEN d ELSE DevWrite(ApplyWrites(d, steps, n - 1), steps[n])

\* A set_state that undoes its writes when a call fails.
DevAfter_rollback(d, steps, ff) ==
    IF ff = 0 THEN ApplyWrites(d, steps, Len(steps)) ELSE d

DevAfter(d, steps, ff) ==
    ApplyWrites(d, steps, IF ff = 0 THEN Len(steps) ELSE ff - 1)

\* What the locals its_*_state hold after the get: the kernel stores through a
\* pointer made from a shared reference to an immutable local initialised to 0,
\* so a build may keep the stored value or the initial 0.
ItsLocal(d, off, inplace) == IF inplace THEN d.its[off] ELSE 0

\* The state record built at the end of state() (Gicv3State / GicState / Gicv3ITSState).
GicBlockRecord(d, typers) ==
    [dist |-> DevRead(d, get_dist_regs(GIC, "")),
     rdist |-> DevRead(d, get_redist_regs(GIC, typers, "")),
     icc |-> DevRead(d, get_icc_regs(GIC, typers, "")),
     gicd_ctlr |-> DevRead(d, read_ctlr(GIC, ""))[1]]

ItsBlockRecord(d, inplace) ==
    [its_ctlr |-> ItsLocal(d, GITS_CTLR, inplace),
     its_iidr |-> ItsLocal(d, GITS_IIDR, inplace),
     its_cbaser |-> ItsLocal(d, GITS_CBASER, inplace),
     its_cwriter |-> ItsLocal(d, GITS_CWRITER, inplace),
     its_creadr |-> ItsLocal(d, GITS_CREADR, inplace),
     its_baser |-> [i \in 1..NumBaser |-> ItsLocal(d, GITS_BASER + (i - 1) * 8, inplace)]]

StateRecord(k, d, typers, inplace) ==
    IF HasIts(k)
    THEN LET g == GicBlockRecord(d, typers)
             t == ItsBlockRecord(d, inplace)
         IN  [dist |-> g.dist, rdist |-> g.rdist, icc |-> g.icc, gicd_ctlr |-> g.gicd_ctlr,
              its_ctlr |-> t.its_ctlr, its_iidr |-> t.its_iidr, its_cbaser |-> t.its_cbaser,
              its_cwriter |-> t.its_cwriter, its_creadr |-> t.its_creadr,
              its_baser |-> t.its_baser]
    ELSE GicBlockRecord(d, typers)

NotCalled == [called |-> FALSE, result |-> "None", err |-> "", rec |-> <<>>]

\* state(&self, gicr_typers): Ok(record), Err(variant), or a panic where the Gic
\* unwraps a device_entity that is None.
state(k, has_entity, d, typers, faults, inplace) ==
    LET steps == StateSteps(k, typers)
        ff == FirstFail(d, steps, faults)
    IN  IF ~has_entity
        THEN [res |-> [called |-> TRUE, result |-> "Panic", err |-> "", rec |-> <<>>],
              log |-> <<>>]
        ELSE IF ff # 0
        THEN [res |-> [called |-> TRUE, result |-> "Err", err |-> steps[ff].err, rec |-> <<>>],
              log |-> LogOf(d, steps, ff)]
        ELSE [res |-> [called |-> TRUE, result |-> "Ok", err |-> "",
                       rec |-> <<StateRecord(k, d, typers, inplace)>>],
              log |-> LogOf(d, steps, ff)]

\* set_state(&mut self, gicr_typers, state): Ok(()), Err(variant) or a panic.
set_state(k, has_entity, d, typers, st, faults) ==
    LET steps == SetStateSteps(k, typers, st)
        ff == FirstFail(d, steps, faults)
    IN  IF ~has_entity
        THEN [res |-> [called |-> TRUE, result |-> "Panic", err |-> "", rec |-> <<>>],
              log |-> <<>>, dev |-> d]
        ELSE [res |-> [called |-> TRUE, result |-> IF ff = 0 THEN "Ok" ELSE "Err",
                       err |-> IF ff = 0 THEN "" ELSE steps[ff].err, rec |-> <<>>],
              log |-> LogOf(d, steps, ff),
              dev |-> DevAfter(d, steps, ff)]

\* ------------------------------------------------------- snapshot sections
\* The fields of the state record in declaration order, and those that are scalars.
FieldOrder(k) ==
    IF HasIts(k)
    THEN <<"dist", "rdist", "icc", "gicd_ctlr", "its_ctlr", "its_iidr", "its_cbaser",
           "its_cwriter", "its_creadr", "its_baser">>
    ELSE <<"dist", "rdist", "icc", "gicd_ctlr">>

ScalarFields ==
    {"gicd_ctlr", "its_ctlr", "its_iidr", "its_cbaser", "its_cwriter", "its_creadr"}

\* serde_json::to_vec of the record: the fields by name, in declaration order,
\* a scalar as one number and a vector or array as its list of numbers.
Serialize(k, rec) ==
    [i \in 1..Len(FieldOrder(k)) |->
        LET f == FieldOrder(k)[i]
        IN  <<f, IF f \in ScalarFields THEN <<rec[f]>> ELSE rec[f]>>]

\* serde_json::from_slice into the record of kind k: every field must be there once
\* with the right shape; a name the record does not have is skipped.
Deserializes(k, bytes) ==
    \A i \in 1..Len(FieldOrder(k)) :
        LET f == FieldOrder(k)[i]
            at == {j \in 1..Len(bytes) : bytes[j][1] = f}
        IN  /\ Cardinality(at) = 1
            /\ \A j \in at :
                /\ f \in ScalarFields => Len(bytes[j][2]) = 1
                /\ f = "its_baser" => Len(bytes[j][2]) = NumBaser

Deserialize(k, bytes) ==
    [f \in {FieldOrder(k)[i] : i \in 1..Len(FieldOrder(k))} |->
        LET j == CHOOSE j \in 1..Len(bytes) : bytes[j][1] = f
        IN  IF f \in ScalarFields THEN bytes[j][2][1] ELSE bytes[j][2]]

\* Snapshottable::id()
\* Both variants under the identifier of the GICv3.
id_shared(k) == GIC_V3_SNAPSHOT_ID

id(k) ==
    CASE k = "KvmGICv3" -> GIC_V3_SNAPSHOT_ID
      [] k = "KvmGICv3ITS" -> GIC_V3_ITS_SNAPSHOT_ID
      [] k = "Gic" -> GIC_SNAPSHOT_ID

\* The name snapshot() and restore() build the section key from: self.id() in the
\* Kvm variants, the field self.id in the Gic.
SectionOwner(k, own_id) == IF k = "Gic" THEN own_id ELSE id(k)

SectionKey(k, own_id) == SectionOwner(k, own_id) \o "-section"

\* The name the messages of restore() use for the component.
MsgName(k) ==
    CASE k = "KvmGICv3" -> "GICv3"
      [] k = "KvmGICv3ITS" -> "GICv3ITS"
      [] k = "Gic" -> "GIC"

NoSnapshot == [id |-> "", snapshot_data |-> <<>>]

NoOutcome == [kind |-> "None", variant |-> "", msg |-> ""]

\* Snapshottable::snapshot: state(..).unwrap(), serialised into one data section.
snapshot(k, own_id, has_entity, d, typers, faults, inplace) ==
    LET e == state(k, has_entity, d, typers, faults, inplace)
    IN  IF e.res.result # "Ok"
        THEN [engine |-> e.res, log |-> e.log, snap |-> NoSnapshot,
              outcome |-> [kind |-> "Panic", variant |-> "", msg |-> e.res.err]]
        ELSE [engine |-> e.res, log |-> e.log,
              snap |-> [id |-> SectionOwner(k, own_id),
                        snapshot_data |->
                            (SectionKey(k, own_id) :> Serialize(k, e.res.rec[1]))],
              outcome |-> [kind |-> "Ok", variant |-> "", msg |-> ""]]

\* restore that falls back on whatever section the snapshot holds.
restore_any_section(k, own_id, has_entity, d, typers, s, faults) ==
    LET key == IF SectionKey(k, own_id) \in DOMAIN s.snapshot_data
               THEN SectionKey(k, own_id)
               ELSE CHOOSE x \in DOMAIN s.snapshot_data : TRUE
    IN  IF DOMAIN s.snapshot_data = {}
        THEN [engine |-> NotCalled, log |-> <<>>, dev |-> d,
              outcome |-> [kind |-> "Err", variant |-> "Restore",
                           msg |-> "Could not find " \o MsgName(k) \o " snapshot section"]]
        ELSE IF ~Deserializes(k, s.snapshot_data[key])
        THEN [engine |-> NotCalled, log |-> <<>>, dev |-> d,
              outcome |-> [kind |-> "Err", variant |-> "Restore",
                           msg |-> "Could not deserialize " \o MsgName(k)]]
        ELSE LET st == Deserialize(k, s.snapshot_data[key])
                 e == set_state(k, has_entity, d, typers, st, {})
             IN  [engine |-> e.res, log |-> e.log, dev |-> e.dev,
                  outcome |-> [kind |-> "Ok", variant |-> "", msg |-> ""]]

\* restore that reports bytes it cannot decode as a missing section.
restore_malformed_as_missing(k, own_id, has_entity, d, typers, s, faults) ==
    IF \/ SectionKey(k, own_id) \notin DOMAIN s.snapshot_data
       \/ ~Deserializes(k, s.snapshot_data[SectionKey(k, own_id)])
    THEN [engine |-> NotCalled, log |-> <<>>, dev |-> d,
          outcome |-> [kind |-> "Err", variant |-> "Restore",
                       msg |-> "Could not find " \o MsgName(k) \o " snapshot section"]]
    ELSE LET st == Deserialize(k, s.snapshot_data[SectionKey(k, own_id)])
             e == set_state(k, has_entity, d, typers, st, faults)
         IN  [engine |-> e.res, log |-> e.log, dev |-> e.dev,
              outcome |->
                CASE e.res.result = "Ok" -> [kind |-> "Ok", variant |-> "", msg |-> ""]
                  [] e.res.result = "Err" ->
                        [kind |-> "Err", variant |-> "Restore",
                         msg |-> "Could not restore " \o MsgName(k) \o " state " \o e.res.err]
                  [] OTHER -> [kind |-> "Panic", variant |-> "", msg |-> ""]]

\* Snapshottable::restore
restore(k, own_id, has_entity, d, typers, s, faults) ==
    IF SectionKey(k, own_id) \notin DOMAIN s.snapshot_data
    THEN [engine |-> NotCalled, log |-> <<>>, dev |-> d,
          outcome |-> [kind |-> "Err", variant |-> "Restore",
                       msg |-> "Could not find " \o MsgName(k) \o " snapshot section"]]
    ELSE IF ~Deserializes(k, s.snapshot_data[SectionKey(k, own_id)])
    THEN [engine |-> NotCalled, log |-> <<>>, dev |-> d,
          outcome |-> [kind |-> "Err", variant |-> "Restore",
                       msg |-> "Could not deserialize " \o MsgName(k)]]
    ELSE LET st == Deserialize(k, s.snapshot_data[SectionKey(k, own_id)])
             e == set_state(k, has_entity, d, typers, st, faults)
         IN  [engine |-> e.res, log |-> e.log, dev |-> e.dev,
              outcome |->
                CASE e.res.result = "Ok" -> [kind |-> "Ok", variant |-> "", msg |-> ""]
                  [] e.res.result = "Err" ->
                        [kind |-> "Err", variant |-> "Restore",
                         msg |-> "Could not restore " \o MsgName(k) \o " state " \o e.res.err]
                  [] OTHER -> [kind |-> "Panic", variant |-> "", msg |-> ""]]

\* ------------------------------------------------------------------ inputs
\* The ways the device fails during a call that issues up to n operations: not at
\* all, on one operation only, or on every operation from some position on.
FaultInputs(n) ==
    {{}} \cup {{i} : i \in 1..n} \cup {i..n : i \in 1..n}

\* vec![0; vcpu_count]
Zeros(n) == [i \in 1..n |-> 0]

\* The typer of vCPU i (1-based) on this device is i - 1.
TypersOf(n) == [i \in 1..n |-> i - 1]

\* The vectors set_gicr_typers is called with: the typers of the n vCPUs, and a
\* vector that is one short.
TyperInputs(n) == {TypersOf(n), TypersOf(n - 1)}

\* A snapshot arriving from a source VM of the same kind, n vCPUs and image v,
\* captured there by a build whose ITS reads are kept (inplace) or not.
Incoming(k, own_id, n, v, inplace) ==
    [id |-> SectionOwner(k, own_id),
     snapshot_data |->
        (SectionKey(k, own_id)
            :> Serialize(k, StateRecord(k, DevImage(k, v, n), TypersOf(n), inplace)))]

\* The same snapshot filed under another component's key, and with its last field cut.
Renamed(s) ==
    [id |-> s.id,
     snapshot_data |->
        ("other-section" :> s.snapshot_data[CHOOSE x \in DOMAIN s.snapshot_data : TRUE])]

Truncated(s) ==
    [id |-> s.id,
     snapshot_data |->
        [x \in DOMAIN s.snapshot_data |->
            SubSeq(s.snapshot_data[x], 1, Len(s.snapshot_data[x]) - 1)]]

\* The other variant of the GIC.
OtherVariant(k) == IF k = "KvmGICv3" THEN "KvmGICv3ITS" ELSE "KvmGICv3"

\* The snapshots restore() is called with: one from a source VM running the same
\* build, the same with its section under another key (whole, and cut short), with
\* its section cut short, and with no section, the one the caller holds, and for a
\* GIC variant one captured by the other variant.
SnapshotInputs(k, own_id, n, held, inplace) ==
    {Incoming(k, own_id, n, v, inplace) : v \in 1..MaxImage}
    \cup (IF k = "Gic" THEN {}
          ELSE {Incoming(OtherVariant(k), id(OtherVariant(k)), n, 1, inplace)})
    \cup {Renamed(Incoming(k, own_id, n, 1, inplace)),
          Renamed(Truncated(Incoming(k, own_id, n, 1, inplace))),
          Truncated(Incoming(k, own_id, n, 1, inplace))}
    \cup {[id |-> SectionOwner(k, own_id), snapshot_data |-> <<>>]}
    \cup (IF held.id = "" THEN {} ELSE {held})

\* The argument of a restore() call as the caller knows it: the Snapshot, whether it
\* is the one this component's snapshot() returned, and the image of the source VM
\* it was captured from (0: it is not a source VM's snapshot).
NoArg == [snapshot |-> NoSnapshot, held |-> FALSE, image |-> 0]

ArgOf(k, own_id, n, held, inplace, s) ==
    LET from == {v \in 1..MaxImage : s = Incoming(k, own_id, n, v, inplace)}
    IN  [snapshot |-> s,
         held |-> (held.id # "" /\ s = held),
         image |-> IF from = {} THEN 0 ELSE CHOOSE v \in from : TRUE]

\* restore() reaches set_state with this snapshot.
Restorable(k, own_id, s) ==
    /\ SectionKey(k, own_id) \in DOMAIN s.snapshot_data
    /\ Deserializes(k, s.snapshot_data[SectionKey(k, own_id)])

\* ------------------------------------------------------------ construction
ADDR == "KVM_DEV_ARM_VGIC_GRP_ADDR"

\* KvmGICDevice::version
version(k) ==
    IF HasIts(k) THEN "KVM_DEV_TYPE_ARM_VGIC_ITS" ELSE "KVM_DEV_TYPE_ARM_VGIC_V3"

\* KvmGICDevice::init_device: vm.create_device of the given type.
init_device(type) ==
    [fn |-> "init_device", dev |-> "vm", grp |-> "", attr |-> type, off |-> 0,
     set |-> TRUE, val |-> <<>>, arg |-> <<>>, err |-> "CreateGIC"]

\* KvmGICDevice::set_device_attribute: addr is the value the attribute is given.
set_device_attribute(d, group, attr, addr, flags) ==
    [fn |-> "set_device_attribute", dev |-> d, grp |-> group, attr |-> attr, off |-> 0,
     set |-> TRUE, val |-> <<addr>>, arg |-> <<>>, err |-> "SetDeviceAttribute"]

\* A create_device that lists each region's size before its base.
create_device_size_first(k, vcpus) ==
    [gicr_typers |-> Zeros(vcpus),
     properties |->
        IF k = "Gic" THEN <<>>
        ELSE <<get_dist_size, get_dist_addr, get_redists_size(vcpus),
               get_redists_addr(vcpus)>>,
     msi_properties |->
        IF HasIts(k) THEN <<get_msi_size, get_msi_addr(vcpus)>> ELSE <<>>]

\* create_device: the fields of the new object.
create_device(k, vcpus) ==
    [gicr_typers |-> Zeros(vcpus),
     properties |->
        IF k = "Gic" THEN <<>>
        ELSE <<get_dist_addr, get_dist_size, get_redists_addr(vcpus),
               get_redists_size(vcpus)>>,
     msi_properties |->
        IF HasIts(k) THEN <<get_msi_addr(vcpus), get_msi_size>> ELSE <<>>]

\* A subtraction of create_device leaves the range of u64.
create_device_overflows(k, vcpus) ==
    \/ Underflows(get_dist_addr, get_redists_size(vcpus))
    \/ HasIts(k) /\ Underflows(get_redists_addr(vcpus), get_msi_size)

\* Option<Arc<dyn hypervisor::Device>>: None, or the handle init_device returned
\* (the handles of a VM are numbered in the order they were created).
None == 0
NoHandles == [gic |-> None, its |-> None]

\* A variant object: the handle(s) it holds (KvmGICv3 keeps no ITS handle), and how
\* often its init_device_attributes and finalize_device have returned Ok for it.
Object(k, gic_v3_device, gic_v3_its_device, inits, finals) ==
    [kind |-> k, gic |-> gic_v3_device,
     its |-> IF HasIts(k) THEN gic_v3_its_device ELSE None,
     inits |-> inits, finals |-> finals]

UnwrapNone == "called Option::unwrap() on a None value"
SubOverflow == "attempt to subtract with overflow"

\* A create_device that unwraps the GIC handle only.
create_device_object_its_unchecked(k, gic_v3_device, gic_v3_its_device, vcpus, checks) ==
    IF gic_v3_device = None
    THEN [outcome |-> [kind |-> "Panic", variant |-> "", msg |-> UnwrapNone],
          created |-> FALSE, obj |-> create_device(k, vcpus),
          holds |-> Object(k, None, None, 0, 0)]
    ELSE [outcome |-> [kind |-> "Ok", variant |-> "", msg |-> ""],
          created |-> TRUE, obj |-> create_device(k, vcpus),
          holds |-> Object(k, gic_v3_device, gic_v3_its_device, 0, 0)]

\* create_device(gic_v3_device, gic_v3_its_device, vcpu_count), the
\* create_device_object of the trait: the handles are unwrapped first, then the
\* regions are computed (a panic on an overflowing subtraction in a build with
\* overflow checks).
create_device_object(k, gic_v3_device, gic_v3_its_device, vcpus, checks) ==
    IF gic_v3_device = None \/ (HasIts(k) /\ gic_v3_its_device = None)
    THEN [outcome |-> [kind |-> "Panic", variant |-> "", msg |-> UnwrapNone],
          created |-> FALSE, obj |-> create_device(k, vcpus),
          holds |-> Object(k, None, None, 0, 0)]
    ELSE IF checks /\ create_device_overflows(k, vcpus)
    THEN [outcome |-> [kind |-> "Panic", variant |-> "", msg |-> SubOverflow],
          created |-> FALSE, obj |-> create_device(k, vcpus),
          holds |-> Object(k, None, None, 0, 0)]
    ELSE [outcome |-> [kind |-> "Ok", variant |-> "", msg |-> ""],
          created |-> TRUE, obj |-> create_device(k, vcpus),
          holds |-> Object(k, gic_v3_device, gic_v3_its_device, 0, 0)]

\* ---------------------------------------------------------------- accessors
\* GICDevice::fdt_compatibility, the same literal in both impls
fdt_compatibility(k) == "arm,gic-v3"

\* GICDevice::fdt_maint_irq
fdt_maint_irq(k) == ARCH_GIC_V3_MAINT_IRQ

\* KvmGICv3ITS without its override of msi_compatible.
msi_compatible_default(k) == FALSE

\* GICDevice::msi_compatible: false by default, true in KvmGICv3ITS
msi_compatible(k) == HasIts(k)

\* GICDevice::msi_compatibility: "" by default
msi_compatibility(k) == IF HasIts(k) THEN "arm,gic-v3-its" ELSE ""

\* GICDevice::msi_properties: &self.msi_properties in KvmGICv3ITS, &[] by default
get_msi_properties(k, msi_props) == IF HasIts(k) THEN msi_props ELSE <<>>

\* GICDevice::device and its_device
device(o) == o.gic
its_device(k, o) == IF HasIts(k) THEN o.its ELSE None

AccessorNames ==
    {"device", "its_device", "fdt_compatibility", "fdt_maint_irq", "device_properties",
     "vcpu_count", "msi_compatible", "msi_compatibility", "msi_properties"}

\* What accessor a returns on object o of variant k with the given fields.
accessor(a, k, o, props, msi_props, vcpus) ==
    CASE a = "device" -> device(o)
      [] a = "its_device" -> its_device(k, o)
      [] a = "fdt_compatibility" -> fdt_compatibility(k)
      [] a = "fdt_maint_irq" -> fdt_maint_irq(k)
      [] a = "device_properties" -> props
      [] a = "vcpu_count" -> vcpus
      [] a = "msi_compatible" -> msi_compatible(k)
      [] a = "msi_compatibility" -> msi_compatibility(k)
      [] a = "msi_properties" -> get_msi_properties(k, msi_props)

\* ------------------------------------------------------------ migration hooks
\* Pausable::pause / resume and Transportable::send / recv: the impls are empty, the
\* bodies are the defaults of the traits, which do nothing and return Ok(()).
HookNames == {"pause", "resume", "send", "recv"}

\* A pause that flushes the pending tables.
hook_saving_tables(h) ==
    [outcome |-> [kind |-> "Ok", variant |-> "", msg |-> ""],
     steps |-> << save_pending_tables(GIC, "SavePendingTables") >>]

hook(h) ==
    [outcome |-> [kind |-> "Ok", variant |-> "", msg |-> ""], steps |-> <<>>]

\* KvmGICv3::init_device_attributes
KvmGICv3_init_device_attributes(vcpus) ==
    << set_device_attribute(GIC, ADDR, "KVM_VGIC_V3_ADDR_TYPE_DIST", get_dist_addr, 0),
       set_device_attribute(GIC, ADDR, "KVM_VGIC_V3_ADDR_TYPE_REDIST",
                            get_redists_addr(vcpus), 0) >>

KvmGICv3ITS_init_device_attributes_init_first(vcpus) ==
    << set_device_attribute(ITS, CTRL, "KVM_DEV_ARM_VGIC_CTRL_INIT", 0, 0),
       set_device_attribute(ITS, ADDR, "KVM_VGIC_ITS_ADDR_TYPE", get_msi_addr(vcpus), 0) >>

\* KvmGICv3ITS::init_device_attributes
KvmGICv3ITS_init_device_attributes(vcpus) ==
    << set_device_attribute(ITS, ADDR, "KVM_VGIC_ITS_ADDR_TYPE", get_msi_addr(vcpus), 0),
       set_device_attribute(ITS, CTRL, "KVM_DEV_ARM_VGIC_CTRL_INIT", 0, 0) >>

\* KvmGICDevice::finalize_device: the "init complete" control attribute of the GIC.
finalize_device ==
    << set_device_attribute(GIC, CTRL, "KVM_DEV_ARM_VGIC_CTRL_INIT", 0, 0) >>

\* KvmGICv3::new
KvmGICv3_new_steps(vcpus) ==
    << init_device(version("KvmGICv3")) >>
    \o KvmGICv3_init_device_attributes(vcpus)
    \o finalize_device

\* KvmGICv3ITS::new
KvmGICv3ITS_new_steps(vcpus) ==
    << init_device(version("KvmGICv3")), init_device(version("KvmGICv3ITS")) >>
    \o KvmGICv3_init_device_attributes(vcpus)
    \o KvmGICv3ITS_init_device_attributes(vcpus)
    \o finalize_device

NewSteps(k, vcpus) ==
    IF HasIts(k) THEN KvmGICv3ITS_new_steps(vcpus) ELSE KvmGICv3_new_steps(vcpus)

\* The init_device calls that precede create_device in new().
NumInitDevice(k) == IF HasIts(k) THEN 2 ELSE 1

\* new(vm, vcpu_count): Ok(object), Err(variant), or a panic on an overflowing
\* subtraction in a build with overflow checks.
new(k, vcpus, faults, checks) ==
    LET steps == NewSteps(k, vcpus)
        d == DevImage(k, 0, 0)
        ff == FirstFail(d, steps, faults)
        ninit == NumInitDevice(k)
        obj == create_device(k, vcpus)
    IN  IF ff # 0 /\ ff <= ninit
        THEN [outcome |-> [kind |-> "Err", variant |-> steps[ff].err, msg |-> ""],
              log |-> LogOf(d, steps, ff), created |-> FALSE, obj |-> obj]
        ELSE IF checks /\ create_device_overflows(k, vcpus)
        THEN [outcome |-> [kind |-> "Panic", variant |-> "",
                           msg |-> "attempt to subtract with overflow"],
              log |-> LogOf(d, SubSeq(steps, 1, ninit), 0), created |-> FALSE, obj |-> obj]
        ELSE [outcome |-> IF ff = 0 THEN [kind |-> "Ok", variant |-> "", msg |-> ""]
                          ELSE [kind |-> "Err", variant |-> steps[ff].err, msg |-> ""],
              log |-> LogOf(d, steps, ff), created |-> TRUE, obj |-> obj]

\* create_gic(vm, vcpu_count): both handles are created, then both objects, the
\* GICv3 object and the GICv3+ITS object each from a clone of the GIC handle; the
\* calls of init_device_attributes and finalize_device are commented out.
create_gic(vcpus, faults, checks) ==
    LET steps == << init_device(version("KvmGICv3")), init_device(version("KvmGICv3ITS")) >>
        d == DevImage("KvmGICv3ITS", 0, 0)
        ff == FirstFail(d, steps, faults)
        gicv3_device_obj == create_device_object("KvmGICv3", 1, None, vcpus, checks)
        gicv3_its_device_obj == create_device_object("KvmGICv3ITS", 1, 2, vcpus, checks)
    IN  IF ff # 0
        THEN [outcome |-> [kind |-> "Err", variant |-> steps[ff].err, msg |-> ""],
              log |-> LogOf(d, steps, ff), created |-> FALSE, objs |-> <<>>]
        ELSE IF ~gicv3_device_obj.created
        THEN [outcome |-> gicv3_device_obj.outcome,
              log |-> LogOf(d, steps, 0), created |-> FALSE, objs |-> <<>>]
        ELSE IF ~gicv3_its_device_obj.created
        THEN [outcome |-> gicv3_its_device_obj.outcome,
              log |-> LogOf(d, steps, 0), created |-> FALSE, objs |-> <<>>]
        ELSE [outcome |-> [kind |-> "Ok", variant |-> "", msg |-> ""],
              log |-> LogOf(d, steps, 0), created |-> TRUE,
              objs |-> <<gicv3_device_obj.holds, gicv3_its_device_obj.holds>>]

\* Self::init_device_attributes of variant k
init_device_attributes(k, vcpus) ==
    IF HasIts(k) THEN KvmGICv3ITS_init_device_attributes(vcpus)
    ELSE KvmGICv3_init_device_attributes(vcpus)

\* A setup call on an existing object: the attributes are set in order, the first
\* one the device rejects ends the call with that error.
setup_call(d, steps, faults) ==
    LET ff == FirstFail(d, steps, faults)
    IN  [outcome |-> IF ff = 0 THEN [kind |-> "Ok", variant |-> "", msg |-> ""]
                     ELSE [kind |-> "Err", variant |-> steps[ff].err, msg |-> ""],
         log |-> LogOf(d, steps, ff)]

\* The vCPU counts new() is called with: the small ones, and those around the
\* largest count whose redistributor region fits below the distributor.
WrapVcpus == get_dist_addr \div KVM_VGIC_V3_REDIST_SIZE

NewVcpuInputs ==
    (1..MaxNewVcpus) \cup {WrapVcpus + i : i \in (0 - MaxWrapSlack)..MaxWrapSlack}

\* ------------------------------------------------- the ACPI static tables
\* vmm acpi.rs: create_acpi_tables builds the static tables and writes them to
\* guest memory.  A table is modelled by its signature, its length in bytes and
\* the values appended to or written into it that the layout depends on.
SDT(sig, len) == [sig |-> sig, len |-> len, body |-> <<>>]

\* SDT::append / SDT::append_slice: the value goes to the end of the table, which
\* grows by the value's size in bytes.
append(table, value, size) ==
    [table EXCEPT !.len = @ + size, !.body = Append(@, value)]

\* GuestAddress::checked_add on u64 residues: None when the sum passes 2^64 - 1.
\* No address of a table is 0, so None (0) stands for the absent sum.
checked_add(addr, len) ==
    IF addr = None \/ (addr < 0 /\ addr + len >= 0) THEN None ELSE addr + len

\* arch::layout::RSDP_POINTER is a per-architecture constant defined outside
\* these sources; the two values are the addresses upstream gives it.
RSDP_POINTER(target_arch) == IF target_arch = "x86_64" THEN 655360 ELSE 1075838976

\* RSDP::len(): the 36 bytes of an ACPI 2.0 root pointer.
RSDP_len == 36

\* RSDP::new(oem, xsdt_addr)
RSDP(xsdt_addr) == [sig |-> "RSD PTR ", len |-> RSDP_len, body |-> <<xsdt_addr>>]

\* create_dsdt_table: the header and the AML of the three managers.
create_dsdt_table(aml_len) == append(SDT("DSDT", 36), "aml", aml_len)

create_gtdt_table == SDT("GTDT", 104)

create_spcr_table == SDT("SPCR", 80)

create_iort_table == SDT("IORT", 124)

\* The FACP of create_acpi_tables: 276 bytes; SDT::write puts X_DSDT at byte 140
\* and leaves the length as it is.
create_facp(dsdt_offset) ==
    [SDT("FACP", 276) EXCEPT !.body = <<[at |-> 140, value |-> dsdt_offset]>>]

\* The MCFG: 8 reserved bytes and one PCIRangeEntry of 16 bytes.
create_mcfg == append(append(SDT("MCFG", 36), 0, 8), "PCIRangeEntry", 16)

\* BTreeMap::keys / iter: the keys in ascending order.
keys(map) ==
    CHOOSE s \in [1..Cardinality(DOMAIN map) -> DOMAIN map] :
        \A i, j \in DOMAIN s : i < j => s[i] < s[j]

\* The SRAT entries of one node: its memory regions (ENABLE), its hotplug
\* regions (ENABLE | HOTPLUGGABLE), then its CPUs.
srat_node_entries(node_id, node) ==
    [i \in 1..node.memory_regions |->
        [type_ |-> 1, length |-> 40, proximity_domain |-> node_id, flags |-> 1]]
    \o [i \in 1..node.hotplug_regions |->
        [type_ |-> 1, length |-> 40, proximity_domain |-> node_id, flags |-> 3]]
    \o [i \in 1..node.cpus |->
        [type_ |-> 2, length |-> 24, proximity_domain |-> node_id, flags |-> 1]]

\* A loop of SDT::append over entries, each a structure of entry.length bytes.
RECURSIVE AppendAll(_, _)
AppendAll(table, entries) ==
    IF entries = <<>> THEN table
    ELSE AppendAll(append(table, Head(entries), Head(entries).length), Tail(entries))

RECURSIVE srat_entries(_, _)
srat_entries(nodes, ks) ==
    IF ks = <<>> THEN <<>>
    ELSE srat_node_entries(Head(ks), nodes[Head(ks)]) \o srat_entries(nodes, Tail(ks))

\* The SRAT: header, 12 reserved bytes, the entries of every node in key order.
create_srat(nodes) ==
    AppendAll(append(SDT("SRAT", 36), 0, 12), srat_entries(nodes, keys(nodes)))

slit_dist_configured_first(node_id, distances, i) ==
    IF i \in DOMAIN distances THEN distances[i]
    ELSE IF node_id = i THEN 10
    ELSE 20

\* One SLIT entry: the distance from node node_id, whose configured distances
\* are given, to node i.
slit_dist(node_id, distances, i) ==
    IF node_id = i THEN 10
    ELSE IF i \in DOMAIN distances THEN distances[i]
    ELSE 20

\* The SLIT: header, the number of localities on 8 bytes, then one byte for
\* every pair of existing nodes, the rows and the columns in key order.
create_slit(nodes) ==
    LET existing_nodes == keys(nodes)
        n == Len(existing_nodes)
        dists == [k \in 1..(n * n) |->
                     LET node_id == existing_nodes[((k - 1) \div n) + 1]
                     IN  [length |-> 1,
                          dist |-> slit_dist(node_id, nodes[node_id].distances,
                                             existing_nodes[((k - 1) % n) + 1])]]
    IN  AppendAll(append(SDT("SLIT", 36), n, 8), dists)

srat_offset_after_mcfg(target_arch, mcfg_offset, mcfg, spcr_offset, spcr) ==
    checked_add(mcfg_offset, mcfg.len)

\* srat_offset: after the MCFG on x86_64, after the SPCR on aarch64.
srat_offset(target_arch, mcfg_offset, mcfg, spcr_offset, spcr) ==
    IF target_arch = "x86_64" THEN checked_add(mcfg_offset, mcfg.len)
    ELSE checked_add(spcr_offset, spcr.len)

\* The XSDT: header, then the 8-byte address of every table pushed to tables,
\* appended in the order pushed.
create_xsdt(tables) ==
    [SDT("XSDT", 36) EXCEPT !.len = @ + 8 * Len(tables), !.body = tables]

\* Bytes::write_slice on the guest memory: the slice must lie inside it.
write_slice_ok(env, slice) ==
    /\ slice.addr # None
    /\ ~U64Lt(slice.addr, RSDP_POINTER(env.target_arch))
    /\ ~U64Lt(env.mem_end, slice.addr + slice.table.len)

\* The steps of create_acpi_tables that can panic, in program order: a write to
\* guest memory (its offset unwrapped just before), or the lookup of the serial
\* device (aarch64).
create_acpi_tables_steps(env, nodes) ==
    LET Slice(addr, table) == [addr |-> addr, table |-> table]
        aarch64 == env.target_arch = "aarch64"
        rsdp_offset == RSDP_POINTER(env.target_arch)
        dsdt == create_dsdt_table(env.aml_len)
        dsdt_offset == checked_add(rsdp_offset, RSDP_len)
        facp == create_facp(dsdt_offset)
        facp_offset == checked_add(dsdt_offset, dsdt.len)
        madt == env.madt
        madt_offset == checked_add(facp_offset, facp.len)
        gtdt == create_gtdt_table
        gtdt_offset == checked_add(madt_offset, madt.len)
        mcfg == create_mcfg
        mcfg_offset == IF aarch64 THEN checked_add(gtdt_offset, gtdt.len)
                       ELSE checked_add(madt_offset, madt.len)
        spcr == create_spcr_table
        spcr_offset == checked_add(mcfg_offset, mcfg.len)
        srat == create_srat(nodes)
        srat_off == srat_offset(env.target_arch, mcfg_offset, mcfg, spcr_offset, spcr)
        slit == create_slit(nodes)
        slit_offset == checked_add(srat_off, srat.len)
        is_empty == DOMAIN nodes = {}
        prev_tbl_len == IF ~is_empty THEN slit.len
                        ELSE IF aarch64 THEN spcr.len ELSE mcfg.len
        prev_tbl_off == IF ~is_empty THEN slit_offset
                        ELSE IF aarch64 THEN spcr_offset ELSE mcfg_offset
        iort == create_iort_table
        iort_offset == checked_add(prev_tbl_off, prev_tbl_len)
        tables == <<facp_offset, madt_offset>>
                  \o (IF aarch64 THEN <<gtdt_offset>> ELSE <<>>)
                  \o <<mcfg_offset>>
                  \o (IF aarch64 THEN <<spcr_offset>> ELSE <<>>)
                  \o (IF is_empty THEN <<>> ELSE <<srat_off, slit_offset>>)
                  \o (IF aarch64 THEN <<iort_offset>> ELSE <<>>)
        xsdt == create_xsdt(tables)
        xsdt_offset == IF aarch64 THEN checked_add(iort_offset, iort.len)
                       ELSE checked_add(prev_tbl_off, prev_tbl_len)
    IN  <<Slice(dsdt_offset, dsdt), Slice(facp_offset, facp), Slice(madt_offset, madt)>>
        \o (IF aarch64 THEN <<Slice(gtdt_offset, gtdt)>> ELSE <<>>)
        \o <<Slice(mcfg_offset, mcfg)>>
        \o (IF aarch64 THEN <<[unwrap |-> env.serial], Slice(spcr_offset, spcr)>> ELSE <<>>)
        \o (IF is_empty THEN <<>> ELSE <<Slice(srat_off, srat), Slice(slit_offset, slit)>>)
        \o (IF aarch64 THEN <<Slice(iort_offset, iort)>> ELSE <<>>)
        \o <<Slice(xsdt_offset, xsdt), Slice(rsdp_offset, RSDP(xsdt_offset))>>

\* create_acpi_tables(guest_mem, managers, numa_nodes): the slices written until
\* the first step that panics, and the address returned when none does.
create_acpi_tables(env, nodes) ==
    LET IsSlice(step) == "addr" \in DOMAIN step
        StepOk(step) == IF IsSlice(step) THEN write_slice_ok(env, step) ELSE step.unwrap
        steps == create_acpi_tables_steps(env, nodes)
        bad == {i \in 1..Len(steps) : ~StepOk(steps[i])}
        done == IF bad = {} THEN Len(steps)
                ELSE (CHOOSE i \in bad : \A j \in bad : i <= j) - 1
    IN  [guest_mem |-> SelectSeq(SubSeq(steps, 1, done), IsSlice),
         ret |-> IF bad = {} THEN [kind |-> "Ok", addr |-> RSDP_POINTER(env.target_arch)]
                 ELSE [kind |-> "Panic", addr |-> None]]

\* No call of create_acpi_tables is part of the behaviour.
NoAcpi ==
    /\ acpi_env = <<>>
    /\ numa_nodes = <<>>
    /\ guest_mem = <<>>
    /\ acpi_ret = [kind |-> "None", addr |-> None]

\* ----------------------------------------------------------- the behaviours
Init ==
    /\ kind \in Kinds
    /\ vcpu_count \in 1..MaxVcpus
    /\ gicr_typers = Zeros(vcpu_count)
    /\ gic_id \in (IF kind = "Gic" THEN {"gic", "_gic"} ELSE {id(kind)})
    /\ device_entity = (kind # "Gic")
    /\ inplace_reads \in (IF HasIts(kind) THEN BOOLEAN ELSE {TRUE})
    /\ dev = DevImage(kind, 0, vcpu_count)
    /\ snap = NoSnapshot
    /\ txn = "new"
    /\ log = (IF kind = "Gic" THEN <<>> ELSE new(kind, vcpu_count, {}, FALSE).log)
    /\ engine = NotCalled
    /\ outcome = NoOutcome
    /\ properties = create_device(kind, vcpu_count).properties
    /\ msi_properties = create_device(kind, vcpu_count).msi_properties
    /\ restore_arg = NoArg
    /\ objects = (IF kind = "Gic" THEN <<>> ELSE <<Object(kind, 1, 2, 1, 1)>>)
    /\ handles = (IF kind = "Gic" THEN NoHandles ELSE [gic |-> 1, its |-> Object(kind, 1, 2, 1, 1).its])
    /\ NoAcpi

\* The component is still in use: no call has panicked, and no restore has failed
\* part-way (a failed restore is fatal to the migration and the destination VM is
\* discarded, spec sections 5 and 7).
Alive ==
    /\ outcome.kind # "Panic"
    /\ ~(txn = "restore" /\ engine.called /\ engine.result # "Ok")

\* Gic::set_device_entity
SetDeviceEntity ==
    /\ Alive
    /\ kind = "Gic"
    /\ device_entity' = TRUE
    /\ txn' = "set_device_entity"
    /\ log' = <<>>
    /\ engine' = NotCalled
    /\ outcome' = NoOutcome
    /\ snap' = NoSnapshot
    /\ restore_arg' = NoArg
    /\ UNCHANGED <<acpi_env, numa_nodes, guest_mem, acpi_ret, kind, vcpu_count, gicr_typers, gic_id, inplace_reads, dev,
                   properties, msi_properties, objects, handles>>

\* set_gicr_typers(&mut self, gicr_typers)
set_gicr_typers(typers) ==
    /\ Alive
    /\ gicr_typers' = typers
    /\ txn' = "set_gicr_typers"
    /\ log' = <<>>
    /\ engine' = NotCalled
    /\ outcome' = NoOutcome
    /\ snap' = NoSnapshot
    /\ restore_arg' = NoArg
    /\ UNCHANGED <<acpi_env, numa_nodes, guest_mem, acpi_ret, kind, vcpu_count, gic_id, device_entity, inplace_reads, dev,
                   properties, msi_properties, objects, handles>>

SetGicrTypers == \E typers \in TyperInputs(vcpu_count) : set_gicr_typers(typers)

\* The guest runs and leaves its registers holding image v.
GuestRun ==
    /\ Alive
    /\ device_entity
    /\ \E v \in 0..MaxImage : dev' = DevImage(kind, v, vcpu_count)
    /\ txn' = "guest"
    /\ log' = <<>>
    /\ engine' = NotCalled
    /\ outcome' = NoOutcome
    /\ restore_arg' = NoArg
    /\ UNCHANGED <<acpi_env, numa_nodes, guest_mem, acpi_ret, kind, vcpu_count, gicr_typers, gic_id, device_entity, inplace_reads, snap,
                   properties, msi_properties, objects, handles>>

\* A call of snapshot() while the device rejects the calls at positions faults.
\* The caller keeps the argument of a restore() that has just succeeded.
Snapshot ==
    /\ Alive
    /\ \E faults \in FaultInputs(Len(StateSteps(kind, gicr_typers))) :
        \E r \in {snapshot(kind, gic_id, device_entity, dev, gicr_typers, faults,
                           inplace_reads)} :
            /\ txn' = "snapshot"
            /\ log' = r.log
            /\ engine' = r.engine
            /\ outcome' = r.outcome
            /\ snap' = r.snap
            /\ dev' = ApplyWrites(dev, r.log, Cardinality({i \in 1..Len(r.log) : r.log[i].ok}))
    /\ restore_arg' = IF txn = "restore" /\ outcome.kind = "Ok" THEN restore_arg ELSE NoArg
    /\ UNCHANGED <<acpi_env, numa_nodes, guest_mem, acpi_ret, kind, vcpu_count, gicr_typers, gic_id, device_entity, inplace_reads,
                   properties, msi_properties, objects, handles>>

\* A call of restore(s) while the device rejects the calls at positions faults;
\* restore takes the Snapshot by value.
Restore ==
    /\ Alive
    /\ \E s \in SnapshotInputs(kind, gic_id, vcpu_count, snap, inplace_reads) :
       \E faults \in (IF Restorable(kind, gic_id, s)
                      THEN FaultInputs(Len(SetStateSteps(kind, gicr_typers,
                                Deserialize(kind, s.snapshot_data[SectionKey(kind, gic_id)]))))
                      ELSE {{}}) :
        \E r \in {restore(kind, gic_id, device_entity, dev, gicr_typers, s, faults)} :
            /\ txn' = "restore"
            /\ log' = r.log
            /\ engine' = r.engine
            /\ outcome' = r.outcome
            /\ dev' = r.dev
            /\ snap' = NoSnapshot
            /\ restore_arg' = ArgOf(kind, gic_id, vcpu_count, snap, inplace_reads, s)
    /\ UNCHANGED <<acpi_env, numa_nodes, guest_mem, acpi_ret, kind, vcpu_count, gicr_typers, gic_id, device_entity, inplace_reads,
                   properties, msi_properties, objects, handles>>

\* A call of one of the accessors of the GICDevice trait; outcome.msg is the value
\* it returned.
Accessor ==
    /\ Alive
    /\ kind # "Gic"
    /\ \E a \in AccessorNames :
        /\ txn' = a
        /\ outcome' = [kind |-> "Ok", variant |-> "",
                       msg |-> accessor(a, kind, objects[1], properties, msi_properties,
                                        vcpu_count)]
    /\ log' = <<>>
    /\ engine' = NotCalled
    /\ snap' = NoSnapshot
    /\ restore_arg' = NoArg
    /\ UNCHANGED <<acpi_env, numa_nodes, guest_mem, acpi_ret, kind, vcpu_count, gicr_typers, gic_id, device_entity, inplace_reads, dev,
                   properties, msi_properties, objects, handles>>

\* A call of pause(), resume(), send() or recv().
Hook ==
    /\ Alive
    /\ \E h \in HookNames :
        \E r \in {hook(h)} :
            /\ txn' = h
            /\ outcome' = r.outcome
            /\ log' = LogOf(dev, r.steps, 0)
    /\ engine' = NotCalled
    /\ snap' = NoSnapshot
    /\ restore_arg' = NoArg
    /\ UNCHANGED <<acpi_env, numa_nodes, guest_mem, acpi_ret, kind, vcpu_count, gicr_typers, gic_id, device_entity, inplace_reads, dev,
                   properties, msi_properties, objects, handles>>

Next ==
    \/ SetDeviceEntity
    \/ Accessor
    \/ Hook
    \/ SetGicrTypers
    \/ GuestRun
    \/ Snapshot
    \/ Restore

Spec == Init /\ [][Next]_vars

\* Construction through new(): the state before the call, and the call.
InitNew ==
    /\ kind \in {"KvmGICv3", "KvmGICv3ITS"}
    /\ vcpu_count \in NewVcpuInputs
    /\ gicr_typers = <<>>
    /\ gic_id = id(kind)
    /\ device_entity = TRUE
    /\ inplace_reads = TRUE
    /\ dev = DevImage(kind, 0, 0)
    /\ snap = NoSnapshot
    /\ txn = "none"
    /\ log = <<>>
    /\ engine = NotCalled
    /\ outcome = NoOutcome
    /\ properties = <<>>
    /\ msi_properties = <<>>
    /\ restore_arg = NoArg
    /\ objects = <<>>
    /\ handles = NoHandles
    /\ NoAcpi

\* A call of new(vm, vcpu_count) while the virtualization layer rejects the calls at
\* positions faults, in a build with (checks) or without overflow checks.
New ==
    /\ txn = "none"
    /\ \E faults \in FaultInputs(Len(NewSteps(kind, vcpu_count))) :
       \E checks \in BOOLEAN :
        \E r \in {new(kind, vcpu_count, faults, checks)} :
            /\ txn' = "new"
            /\ log' = r.log
            /\ outcome' = r.outcome
            /\ gicr_typers' = IF r.created THEN r.obj.gicr_typers ELSE <<>>
            /\ properties' = IF r.created THEN r.obj.properties ELSE <<>>
            /\ msi_properties' = IF r.created THEN r.obj.msi_properties ELSE <<>>
            /\ dev' = IF r.created THEN DevImage(kind, 0, vcpu_count) ELSE dev
            /\ objects' = IF r.created /\ r.outcome.kind = "Ok"
                           THEN <<Object(kind, 1, 2, 1, 1)>> ELSE <<>>
            /\ handles' = IF Len(r.log) >= NumInitDevice(kind)
                              /\ \A i \in 1..NumInitDevice(kind) : r.log[i].ok
                           THEN [gic |-> 1, its |-> Object(kind, 1, 2, 1, 1).its]
                           ELSE NoHandles
    /\ UNCHANGED <<acpi_env, numa_nodes, guest_mem, acpi_ret, kind, vcpu_count, gic_id, device_entity, inplace_reads, snap, engine,
                   restore_arg>>

\* A call of create_device with each handle present or absent.
CreateDevice ==
    /\ txn = "none"
    /\ \E gic_v3_device \in {None, 1}, gic_v3_its_device \in {None, 2}, checks \in BOOLEAN :
        \E r \in {create_device_object(kind, gic_v3_device, gic_v3_its_device,
                                       vcpu_count, checks)} :
            /\ txn' = "create_device"
            /\ log' = <<>>
            /\ outcome' = r.outcome
            /\ gicr_typers' = IF r.created THEN r.obj.gicr_typers ELSE <<>>
            /\ properties' = IF r.created THEN r.obj.properties ELSE <<>>
            /\ msi_properties' = IF r.created THEN r.obj.msi_properties ELSE <<>>
            /\ dev' = IF r.created THEN DevImage(kind, 0, vcpu_count) ELSE dev
            /\ objects' = IF r.created THEN <<r.holds>> ELSE <<>>
            /\ handles' = [gic |-> gic_v3_device, its |-> gic_v3_its_device]
    /\ UNCHANGED <<acpi_env, numa_nodes, guest_mem, acpi_ret, kind, vcpu_count, gic_id, device_entity, inplace_reads, snap, engine,
                   restore_arg>>

\* A call of create_gic(vm, vcpu_count); the component under verification is the
\* object of the pair that has this behaviour's kind.
CreateGic ==
    /\ txn = "none"
    /\ \E faults \in FaultInputs(2), checks \in BOOLEAN :
        \E r \in {create_gic(vcpu_count, faults, checks)} :
            /\ txn' = "create_gic"
            /\ log' = r.log
            /\ outcome' = r.outcome
            /\ gicr_typers' =
                    IF r.created THEN create_device(kind, vcpu_count).gicr_typers ELSE <<>>
            /\ properties' =
                    IF r.created THEN create_device(kind, vcpu_count).properties ELSE <<>>
            /\ msi_properties' =
                    IF r.created THEN create_device(kind, vcpu_count).msi_properties ELSE <<>>
            /\ dev' = IF r.created THEN DevImage(kind, 0, vcpu_count) ELSE dev
            /\ objects' = r.objs
            /\ handles' = IF Len(r.log) = 2 /\ r.log[2].ok
                           THEN [gic |-> 1, its |-> 2] ELSE NoHandles
    /\ UNCHANGED <<acpi_env, numa_nodes, guest_mem, acpi_ret, kind, vcpu_count, gic_id, device_entity, inplace_reads, snap, engine,
                   restore_arg>>

\* The object of this behaviour's kind, once a construction call has returned it.
HasSelf == \E i \in DOMAIN objects : objects[i].kind = kind
Self == CHOOSE i \in DOMAIN objects : objects[i].kind = kind

\* A call of Self::init_device_attributes on the object, whatever was called on it
\* before, while the device rejects the calls at positions faults.
InitDeviceAttributes ==
    /\ HasSelf
    /\ objects[Self].inits < MaxSetupCalls
    /\ \E faults \in FaultInputs(Len(init_device_attributes(kind, vcpu_count))) :
        \E r \in {setup_call(dev, init_device_attributes(kind, vcpu_count), faults)} :
            /\ txn' = "init_device_attributes"
            /\ log' = r.log
            /\ outcome' = r.outcome
            /\ objects' = IF r.outcome.kind = "Ok"
                           THEN [objects EXCEPT ![Self].inits = @ + 1] ELSE objects
    /\ UNCHANGED <<acpi_env, numa_nodes, guest_mem, acpi_ret, kind, vcpu_count, gicr_typers, gic_id, device_entity, inplace_reads,
                   dev, snap, engine, properties, msi_properties, restore_arg, handles>>

\* A call of Self::finalize_device on the object, whatever was called on it before.
FinalizeDevice ==
    /\ HasSelf
    /\ objects[Self].finals < MaxSetupCalls
    /\ \E faults \in FaultInputs(Len(finalize_device)) :
        \E r \in {setup_call(dev, finalize_device, faults)} :
            /\ txn' = "finalize_device"
            /\ log' = r.log
            /\ outcome' = r.outcome
            /\ objects' = IF r.outcome.kind = "Ok"
                           THEN [objects EXCEPT ![Self].finals = @ + 1] ELSE objects
    /\ UNCHANGED <<acpi_env, numa_nodes, guest_mem, acpi_ret, kind, vcpu_count, gicr_typers, gic_id, device_entity, inplace_reads,
                   dev, snap, engine, properties, msi_properties, restore_arg, handles>>

NextNew ==
    \/ New
    \/ CreateDevice
    \/ CreateGic
    \/ InitDeviceAttributes
    \/ FinalizeDevice

SpecNew == InitNew /\ [][NextNew]_vars

\* The calls of create_acpi_tables: the build's architecture, the tables the
\* managers hand over, the guest memory and the NUMA nodes of the configuration.
\* The node lists: any set of node ids; each node configures a distance for any
\* set of destinations, existing or not, itself included.
NumaInputs ==
    LET NodeIds == 0..(MaxNumaNodes - 1)
        DistanceInputs == {15, 255}
        NodeShapes == {[memory_regions |-> 1, hotplug_regions |-> 0, cpus |-> 1],
                       [memory_regions |-> 2, hotplug_regions |-> 1, cpus |-> 0]}
    IN  UNION {{[node_id \in ids |->
                    [memory_regions |-> shape.memory_regions,
                     hotplug_regions |-> shape.hotplug_regions,
                     cpus |-> shape.cpus,
                     distances |-> [to \in dests[node_id] |-> dist]]] :
                   dests \in [ids -> SUBSET NodeIds], shape \in NodeShapes,
                   dist \in DistanceInputs} :
               ids \in SUBSET NodeIds}

AcpiEnvInputs ==
    {[target_arch |-> a, aml_len |-> l, madt |-> SDT("APIC", 44 + 8 * l),
      serial |-> s, mem_end |-> RSDP_POINTER(a) + m] :
        a \in {"x86_64", "aarch64"}, l \in 0..MaxAmlLen, s \in BOOLEAN,
        m \in {600, 65536}}

InitAcpi ==
    /\ kind = "KvmGICv3ITS"
    /\ vcpu_count = 1
    /\ gicr_typers = Zeros(vcpu_count)
    /\ gic_id = id(kind)
    /\ device_entity = TRUE
    /\ inplace_reads = TRUE
    /\ dev = DevImage(kind, 0, vcpu_count)
    /\ snap = NoSnapshot
    /\ txn = "new"
    /\ log = <<>>
    /\ engine = NotCalled
    /\ outcome = NoOutcome
    /\ properties = create_device(kind, vcpu_count).properties
    /\ msi_properties = create_device(kind, vcpu_count).msi_properties
    /\ restore_arg = NoArg
    /\ objects = <<>>
    /\ handles = NoHandles
    /\ acpi_env \in {e \in AcpiEnvInputs : e.target_arch = "aarch64" \/ e.serial}
    /\ numa_nodes \in NumaInputs
    /\ guest_mem = <<>>
    /\ acpi_ret = [kind |-> "None", addr |-> None]

\* create_acpi_tables, called once while the VM is built.
CreateAcpiTables ==
    /\ acpi_ret.kind = "None"
    /\ LET r == create_acpi_tables(acpi_env, numa_nodes)
       IN  /\ guest_mem' = r.guest_mem
           /\ acpi_ret' = r.ret
    /\ UNCHANGED <<acpi_env, numa_nodes, kind, vcpu_count, gicr_typers, gic_id,
                   device_entity, inplace_reads, dev, snap, txn, log, engine, outcome,
                   properties, msi_properties, restore_arg, objects, handles>>

NextAcpi ==
    \/ CreateAcpiTables

SpecAcpi == InitAcpi /\ [][NextAcpi]_vars

\* ------------------------------------------------------------ log queries
OnIts(e) == e.dev = ITS
OnGic(e) == e.dev = GIC
ItsRegWrite(e, off) == OnIts(e) /\ e.grp = ITS_REGS /\ e.set /\ e.off = off
ItsRegRead(e) == OnIts(e) /\ e.grp = ITS_REGS /\ ~e.set
ItsCtrlOp(e, attr) == OnIts(e) /\ e.grp = CTRL /\ e.attr = attr
RestoreTables(e) == ItsCtrlOp(e, "KVM_DEV_ARM_ITS_RESTORE_TABLES")
SaveTables(e) == ItsCtrlOp(e, "KVM_DEV_ARM_ITS_SAVE_TABLES")
BaserOffsets == {GITS_BASER + i * 8 : i \in 0..(NumBaser - 1)}
QueueAndTableOffsets == {GITS_CBASER, GITS_CREADR, GITS_CWRITER} \cup BaserOffsets
Fns(l) == [i \in 1..Len(l) |-> l[i].fn]
IsPrefix(a, b) == Len(a) <= Len(b) /\ a = SubSeq(b, 1, Len(a))
AllButLastOk(l) == \A i \in 1..Len(l) : i < Len(l) => l[i].ok
ItsRestoring == kind = "KvmGICv3ITS" /\ txn = "restore"

\* ------------------------------------------------------------------ claims

\* C1: in every restore of the GICv3+ITS variant the restore-tables control op comes
\* strictly after the writes of CBASER, CREADR, CWRITER and all eight BASER registers
\* (each accepted), strictly before the write of ITS CTLR, and ITS CTLR is never
\* written unless restore-tables was issued before it and succeeded.
C1_RestoreTablesBetweenTablesAndCtlr ==
    ItsRestoring =>
        /\ \A i \in 1..Len(log) :
            RestoreTables(log[i]) =>
                /\ \A off \in QueueAndTableOffsets :
                    /\ \E j \in 1..(i - 1) : ItsRegWrite(log[j], off) /\ log[j].ok
                    /\ \A j \in i..Len(log) : ~ItsRegWrite(log[j], off)
                /\ \A j \in 1..i : ~ItsRegWrite(log[j], GITS_CTLR)
        /\ \A i \in 1..Len(log) :
            ItsRegWrite(log[i], GITS_CTLR) =>
                \E j \in 1..(i - 1) : RestoreTables(log[j]) /\ log[j].ok

\* C1 witness: a GICv3+ITS restore that issued restore-tables and then wrote ITS CTLR.
C1_Witness ==
    /\ ItsRestoring
    /\ \E i \in 1..Len(log) : RestoreTables(log[i])
    /\ \E i \in 1..Len(log) : ItsRegWrite(log[i], GITS_CTLR)

\* The ITS handle's operations of a log, each as <<group, attribute, offset, set>>.
ItsOps(l) ==
    LET its == SelectSeq(l, OnIts)
    IN  [i \in 1..Len(its) |-> <<its[i].grp, its[i].attr, its[i].off, its[i].set>>]

C2_ExpectedItsRestore ==
    << <<ITS_REGS, "GITS_IIDR", GITS_IIDR, TRUE>>,
       <<ITS_REGS, "GITS_CBASER", GITS_CBASER, TRUE>>,
       <<ITS_REGS, "GITS_CREADR", GITS_CREADR, TRUE>>,
       <<ITS_REGS, "GITS_CWRITER", GITS_CWRITER, TRUE>> >>
    \o [i \in 1..NumBaser |-> <<ITS_REGS, "GITS_BASER", GITS_BASER + 8 * (i - 1), TRUE>>]
    \o << <<CTRL, "KVM_DEV_ARM_ITS_RESTORE_TABLES", 0, TRUE>>,
          <<ITS_REGS, "GITS_CTLR", GITS_CTLR, TRUE>> >>

\* C2: when no operation fails, the ITS block of the GICv3+ITS restore issues on the
\* ITS handle exactly IIDR, CBASER, CREADR, CWRITER, BASER[0..7] ascending,
\* restore-tables, CTLR, and the CTLR write is the last operation of the restore.
C2_ItsRestoreSequence ==
    (ItsRestoring /\ engine.called /\ \A i \in 1..Len(log) : log[i].ok) =>
        /\ ItsOps(log) = C2_ExpectedItsRestore
        /\ Len(log) > 0
        /\ ItsRegWrite(log[Len(log)], GITS_CTLR)

\* C2 witness: a GICv3+ITS restore that ran to the end with no failure.
C2_Witness ==
    /\ ItsRestoring
    /\ engine.called
    /\ outcome.kind = "Ok"
    /\ \A i \in 1..Len(log) : log[i].ok

C3_GicWrites == {"write_ctlr", "set_dist_regs", "set_redist_regs", "set_icc_regs"}

\* C3: in the GICv3+ITS restore every GIC-block write (distributor control,
\* distributor, redistributor, CPU interface) is issued before the first ITS-block
\* operation, and when a GIC-block write fails nothing is issued on the ITS handle.
C3_GicBlockBeforeItsBlock ==
    ItsRestoring =>
        /\ \A i \in 1..Len(log) :
            OnIts(log[i]) =>
                /\ \A j \in (i + 1)..Len(log) : OnIts(log[j])
                /\ \A f \in C3_GicWrites :
                    \E j \in 1..(i - 1) : OnGic(log[j]) /\ log[j].fn = f /\ log[j].ok
        /\ (\E i \in 1..Len(log) : OnGic(log[i]) /\ ~log[i].ok) =>
                \A j \in 1..Len(log) : ~OnIts(log[j])

\* C3 witness: a GICv3+ITS restore whose redistributor write was rejected.
C3_Witness ==
    /\ ItsRestoring
    /\ \E i \in 1..Len(log) : log[i].fn = "set_redist_regs" /\ ~log[i].ok

C4_ExpectedRestore == <<"write_ctlr", "set_dist_regs", "set_redist_regs", "set_icc_regs">>

\* C4: the GICv3 restore (KvmGICv3 and the devices Gic) issues its writes in the
\* order distributor control, distributor, redistributor, CPU interface, stopping
\* only at a failure; the distributor control register is written first in every run.
C4_Gicv3RestoreOrder ==
    (kind \in {"KvmGICv3", "Gic"} /\ txn = "restore" /\ engine.called
        /\ engine.result # "Panic") =>
        /\ IsPrefix(Fns(log), C4_ExpectedRestore)
        /\ Len(log) > 0
        /\ log[1].fn = "write_ctlr"
        /\ AllButLastOk(log)
        /\ log[Len(log)].ok => Len(log) = Len(C4_ExpectedRestore)

\* C4 witness: a restore of the devices Gic that wrote all four register classes.
C4_Witness ==
    /\ kind = "Gic"
    /\ txn = "restore"
    /\ outcome.kind = "Ok"
    /\ Len(log) = 4

C5_ExpectedCapture ==
    <<"save_pending_tables", "read_ctlr", "get_dist_regs", "get_redist_regs", "get_icc_regs">>

\* C5: the GICv3 capture (KvmGICv3 and the devices Gic) issues, in this order, the
\* pending-table flush, the read of the distributor control register, of the
\* distributor, of the redistributor and of the CPU-interface registers; no register
\* is read unless the flush was issued first and succeeded.
C5_Gicv3CaptureOrder ==
    (kind \in {"KvmGICv3", "Gic"} /\ txn = "snapshot" /\ engine.result # "Panic") =>
        /\ IsPrefix(Fns(log), C5_ExpectedCapture)
        /\ Len(log) > 0
        /\ AllButLastOk(log)
        /\ log[Len(log)].ok => Len(log) = Len(C5_ExpectedCapture)
        /\ \A i \in 1..Len(log) :
            ~log[i].set => (i > 1 /\ log[1].fn = "save_pending_tables" /\ log[1].ok)

\* C5 witness: a KvmGICv3 capture that read all four register classes.
C5_Witness ==
    /\ kind = "KvmGICv3"
    /\ txn = "snapshot"
    /\ Len(log) = 5
    /\ log[5].ok

\* C6 (as claimed): in every capture of the GICv3+ITS variant the save-ITS-tables
\* control op is issued on the ITS handle, and accepted, before the first read of
\* any ITS register.
C6_SaveTablesBeforeItsReads ==
    (kind = "KvmGICv3ITS" /\ txn = "snapshot") =>
        \A i \in 1..Len(log) :
            ItsRegRead(log[i]) =>
                \E j \in 1..(i - 1) : SaveTables(log[j]) /\ log[j].ok

\* C7 (as claimed): when a step of a capture fails, snapshot() returns an error
\* result: no snapshot is produced and the call does not panic.
C7_CaptureFailureIsAnError ==
    (txn = "snapshot" /\ engine.result = "Err") =>
        /\ outcome.kind = "Err"
        /\ snap = NoSnapshot

\* The variant a failing capture step is to be reported with.
C8_ExpectedTag(e) ==
    CASE e.fn = "save_pending_tables" -> "SavePendingTables"
      [] e.fn = "read_ctlr" -> "SaveDistributorCtrlRegisters"
      [] e.fn = "get_dist_regs" -> "SaveDistributorRegisters"
      [] e.fn = "get_redist_regs" -> "SaveRedistributorRegisters"
      [] e.fn = "get_icc_regs" -> "SaveICCRegisters"
      [] ItsRegRead(e) /\ e.off \in BaserOffsets -> "SaveITSBASER"
      [] ItsRegRead(e) /\ e.off = GITS_CTLR -> "SaveITSCTLR"
      [] ItsRegRead(e) /\ e.off = GITS_CBASER -> "SaveITSCBASER"
      [] ItsRegRead(e) /\ e.off = GITS_CREADR -> "SaveITSCREADR"
      [] ItsRegRead(e) /\ e.off = GITS_CWRITER -> "SaveITSCWRITER"
      [] ItsRegRead(e) /\ e.off = GITS_IIDR -> "SaveITSIIDR"
      [] OTHER -> "?"

\* C8: state() of KvmGICv3 and KvmGICv3ITS stops at the first failing step: the
\* failing operation is the last one issued, the error names its stage, and no state
\* record is returned although earlier reads succeeded; without a failure it returns
\* a record.
C8_CaptureStopsAtFirstFailure ==
    (kind \in {"KvmGICv3", "KvmGICv3ITS"} /\ txn = "snapshot") =>
        /\ engine.called
        /\ Len(log) > 0
        /\ AllButLastOk(log)
        /\ ~log[Len(log)].ok =>
            /\ engine.result = "Err"
            /\ engine.err = C8_ExpectedTag(log[Len(log)])
            /\ engine.rec = <<>>
        /\ log[Len(log)].ok =>
            /\ engine.result = "Ok"
            /\ Len(engine.rec) = 1

\* C8 witness: a GICv3+ITS capture that failed on an ITS register after the GIC
\* block and earlier ITS registers had been read.
C8_Witness ==
    /\ kind = "KvmGICv3ITS"
    /\ txn = "snapshot"
    /\ engine.result = "Err"
    /\ Len(log) > 6
    /\ ItsRegRead(log[Len(log)])

\* The variant a failing restore step is to be reported with.
C9_ExpectedTag(e) ==
    CASE e.fn = "write_ctlr" -> "RestoreDistributorCtrlRegisters"
      [] e.fn = "set_dist_regs" -> "RestoreDistributorRegisters"
      [] e.fn = "set_redist_regs" -> "RestoreRedistributorRegisters"
      [] e.fn = "set_icc_regs" -> "RestoreICCRegisters"
      [] RestoreTables(e) -> "RestoreITSRestoreTables"
      [] e.off \in BaserOffsets /\ ItsRegWrite(e, e.off) -> "RestoreITSBASER"
      [] ItsRegWrite(e, GITS_CTLR) -> "RestoreITSCTLR"
      [] ItsRegWrite(e, GITS_CBASER) -> "RestoreITSCBASER"
      [] ItsRegWrite(e, GITS_CREADR) -> "RestoreITSCREADR"
      [] ItsRegWrite(e, GITS_CWRITER) -> "RestoreITSCWRITER"
      [] ItsRegWrite(e, GITS_IIDR) -> "RestoreITSIIDR"
      [] OTHER -> "?"

\* C9: in KvmGICv3 and KvmGICv3ITS a restore step that fails is the last one
\* issued and is reported with the restore variant of its own register class, which
\* restore() hands on inside its "Could not restore" error.
C9_RestoreErrorNamesItsClass ==
    (kind \in {"KvmGICv3", "KvmGICv3ITS"} /\ txn = "restore" /\ engine.called) =>
        /\ Len(log) > 0
        /\ AllButLastOk(log)
        /\ (engine.result = "Err") = (~log[Len(log)].ok)
        /\ engine.result = "Err" =>
            /\ engine.err = C9_ExpectedTag(log[Len(log)])
            /\ outcome.kind = "Err"
            /\ outcome.variant = "Restore"
            /\ outcome.msg = "Could not restore " \o MsgName(kind) \o " state " \o engine.err

\* C9 witness: a GICv3+ITS restore whose restore-tables op was rejected.
C9_Witness ==
    /\ ItsRestoring
    /\ Len(log) > 0
    /\ RestoreTables(log[Len(log)])
    /\ ~log[Len(log)].ok

\* The error a failing restore step of the devices Gic is to be reported with.
C10_ExpectedTag(e) ==
    CASE e.fn = "write_ctlr" -> "RestoreRegisters(distributor control register)"
      [] e.fn = "set_dist_regs" -> "RestoreRegisters(distributor registers)"
      [] e.fn = "set_redist_regs" -> "RestoreRegisters(redistributor registers)"
      [] e.fn = "set_icc_regs" -> "RestoreRegisters(CPU interface registers)"
      [] OTHER -> "?"

\* C10 (as claimed): every failure of set_state of the devices Gic is reported as a
\* restore error naming the failing register class.
C10_GicRestoreErrorIsRestore ==
    (kind = "Gic" /\ txn = "restore" /\ engine.result = "Err") =>
        engine.err = C10_ExpectedTag(log[Len(log)])

\* The section restore() looks for is in the snapshot it was last called with.
ArgHasSection == SectionKey(kind, gic_id) \in DOMAIN restore_arg.snapshot.snapshot_data

ArgSection == restore_arg.snapshot.snapshot_data[SectionKey(kind, gic_id)]

NotFoundMsg == "Could not find " \o MsgName(kind) \o " snapshot section"

DeserializeMsg == "Could not deserialize " \o MsgName(kind)

\* C11: a restore (of any of the three components) called with a snapshot that has
\* no data section under the expected key fails with the "section not found" error,
\* whatever else the snapshot holds; set_state is not entered and no operation is
\* issued on a device handle.
C11_MissingSectionIsNotFound ==
    (txn = "restore" /\ ~ArgHasSection) =>
        /\ outcome = [kind |-> "Err", variant |-> "Restore", msg |-> NotFoundMsg]
        /\ engine = NotCalled
        /\ log = <<>>

\* C11 witness: a restore called with a snapshot whose only section is filed under
\* another key and holds bytes that would not deserialize.
C11_Witness ==
    /\ txn = "restore"
    /\ ~ArgHasSection
    /\ \E x \in DOMAIN restore_arg.snapshot.snapshot_data :
            ~Deserializes(kind, restore_arg.snapshot.snapshot_data[x])

\* The messages restore() gives to a failure of set_state.
C12_RestoreMsgs ==
    LET steps == SetStateSteps(kind, gicr_typers, StateRecord(kind, dev, gicr_typers, TRUE))
    IN  {"Could not restore " \o MsgName(kind) \o " state " \o steps[i].err :
            i \in 1..Len(steps)}

\* C12: a restore called with a snapshot whose expected section is present but does
\* not deserialize into the state record fails with the "deserialize failed" error,
\* which is neither the "section not found" error nor any register-restore error;
\* set_state is not entered and no operation is issued on a device handle.
C12_MalformedSectionIsDeserializeError ==
    (txn = "restore" /\ ArgHasSection /\ ~Deserializes(kind, ArgSection)) =>
        /\ outcome = [kind |-> "Err", variant |-> "Restore", msg |-> DeserializeMsg]
        /\ outcome.msg # NotFoundMsg
        /\ outcome.msg \notin C12_RestoreMsgs
        /\ engine = NotCalled
        /\ log = <<>>

\* C12 witness: a restore called with a snapshot whose section lacks its last field.
C12_Witness ==
    /\ txn = "restore"
    /\ ArgHasSection
    /\ ~Deserializes(kind, ArgSection)
    /\ Len(ArgSection) = Len(FieldOrder(kind)) - 1

C14_TransferPreservesRegisters ==
    (kind \in {"KvmGICv3", "KvmGICv3ITS"} /\ txn = "restore" /\ outcome.kind = "Ok"
        /\ restore_arg.image # 0 /\ gicr_typers = TypersOf(vcpu_count)) =>
        /\ dev.gic.gicd_ctlr = GicImage(restore_arg.image, vcpu_count).gicd_ctlr
        /\ dev = DevImage(kind, restore_arg.image, vcpu_count)

\* ------------------------------------------------- claims about construction
\* new() got as far as create_device, and create_device returned an object.
ReachedCreate ==
    /\ txn = "new"
    /\ Len(log) >= NumInitDevice(kind)
    /\ \A i \in 1..NumInitDevice(kind) : log[i].ok

Constructed == txn = "new" /\ properties # <<>>

\* The u64 x is the natural number a - b, for u64 a and b.
IsDifference(x, a, b) == ~U64Lt(a, b) /\ x = a - b

C15_Layout ==
    /\ properties[4] = vcpu_count * 131072
    /\ IsDifference(properties[3], properties[1], properties[4])
    /\ properties[2] = 65536

\* C15 (as claimed): for every vcpu_count > 0 the properties of a constructed
\* variant satisfy redistributor size = vcpu_count * 131072, redistributor base =
\* distributor base - redistributor size, and distributor size = 65536.
C15_RedistLayoutEveryCount == Constructed => C15_Layout

\* C15 (amended): the same for every vcpu_count > 0 whose redistributor region fits
\* below the distributor (vcpu_count * 131072 <= distributor base); vcpu_count = 4
\* gives a redistributor size of 524288.
C15_RedistLayout ==
    (Constructed /\ vcpu_count * 131072 <= properties[1]) =>
        /\ C15_Layout
        /\ vcpu_count = 4 => properties[4] = 524288

\* C15 witness: a variant constructed for 4 vCPUs with a 524288-byte region.
C15_Witness ==
    /\ Constructed
    /\ outcome.kind = "Ok"
    /\ vcpu_count = 4
    /\ properties[4] = 524288

\* The value init_device_attributes gives the ITS device as its address is the MSI
\* base of msi_properties, and the MSI size is 131072.
C16_MsiReported ==
    /\ msi_properties[2] = 131072
    /\ \A i \in 1..Len(log) :
        (log[i].grp = ADDR /\ log[i].attr = "KVM_VGIC_ITS_ADDR_TYPE") =>
            OnIts(log[i]) /\ log[i].val = <<msi_properties[1]>>

\* C16 (as claimed): for every vcpu_count > 0 a constructed GICv3+ITS variant has
\* MSI base = redistributor base - 131072 and MSI size = 131072, and the MSI base
\* of msi_properties is the address programmed into the ITS device.
C16_MsiLayoutEveryCount ==
    (Constructed /\ HasIts(kind)) =>
        /\ C16_MsiReported
        /\ IsDifference(msi_properties[1], properties[3], 131072)

\* C16 (amended): the MSI size is 131072 and the programmed address is the reported
\* MSI base for every vcpu_count > 0; MSI base = redistributor base - 131072 for
\* every vcpu_count > 0 with vcpu_count * 131072 + 131072 <= distributor base.
C16_MsiLayout ==
    (Constructed /\ HasIts(kind)) =>
        /\ C16_MsiReported
        /\ (vcpu_count * 131072 + 131072 <= properties[1]) =>
                IsDifference(msi_properties[1], properties[3], 131072)

\* C16 witness: a GICv3+ITS variant whose new() programmed the ITS address.
C16_Witness ==
    /\ Constructed
    /\ HasIts(kind)
    /\ outcome.kind = "Ok"
    /\ \E i \in 1..Len(log) :
        log[i].grp = ADDR /\ log[i].attr = "KVM_VGIC_ITS_ADDR_TYPE" /\ log[i].ok

\* Two address ranges, given by base and size, have no address in common.
Disjoint(a, asize, b, bsize) == a + asize <= b \/ b + bsize <= a

C17_Fits ==
    IF HasIts(kind) THEN vcpu_count * 131072 + 131072 <= properties[1]
    ELSE vcpu_count * 131072 <= properties[1]

\* The regions of a variant whose bases did not wrap are pairwise disjoint and end
\* at or below the start of the mapped-IO area.
C17_DisjointBelowMappedIo ==
    /\ properties[1] >= 0 /\ properties[3] >= 0
    /\ Disjoint(properties[1], properties[2], properties[3], properties[4])
    /\ properties[1] + properties[2] <= MAPPED_IO_START
    /\ properties[3] + properties[4] <= MAPPED_IO_START
    /\ HasIts(kind) =>
        /\ msi_properties[1] >= 0
        /\ Disjoint(msi_properties[1], msi_properties[2], properties[3], properties[4])
        /\ Disjoint(msi_properties[1], msi_properties[2], properties[1], properties[2])
        /\ msi_properties[1] + msi_properties[2] <= MAPPED_IO_START

\* A base wrapped around: the MSI region does not lie below the distributor.
C17_Wrapped == Constructed /\ U64Lt(properties[1], msi_properties[1])

\* C17 (as claimed): when vcpu_count * 131072 + 131072 <= distributor base the MSI,
\* redistributor and distributor ranges are pairwise disjoint and lie below the
\* mapped-IO area; for a larger vcpu_count the subtraction wraps and the regions
\* are not laid out below the distributor.
C17_LayoutOrWrap ==
    /\ (Constructed /\ C17_Fits) => C17_DisjointBelowMappedIo
    /\ (ReachedCreate /\ HasIts(kind) /\ vcpu_count * 131072 + 131072 > get_dist_addr) =>
            C17_Wrapped

\* C17 (amended): the first part as claimed (for the GICv3 variant, which has no
\* MSI region, already when vcpu_count * 131072 <= distributor base); for a larger
\* vcpu_count the subtraction overflows: a build without overflow checks wraps and
\* the regions are not laid out below the distributor, a build with overflow
\* checks panics in create_device.
C17_LayoutOrOverflow ==
    /\ (Constructed /\ C17_Fits) => C17_DisjointBelowMappedIo
    /\ (ReachedCreate /\ HasIts(kind) /\ vcpu_count * 131072 + 131072 > get_dist_addr) =>
            (outcome.kind = "Panic" \/ C17_Wrapped)

\* C17 witness: a GICv3+ITS variant constructed for a vcpu_count whose redistributor
\* region still fits but whose MSI base wrapped around.
C17_Witness ==
    /\ Constructed
    /\ HasIts(kind)
    /\ properties[3] >= 0
    /\ C17_Wrapped

\* ------------------------------------------------- claims about gicr_typers
\* C18 (as claimed): in every reachable state of a component the length of
\* gicr_typers equals vcpu_count.
C18_TypersLenIsVcpuCount == Len(gicr_typers) = vcpu_count

\* C19 (as claimed): once set_gicr_typers has been called (it was the last call, or
\* gicr_typers no longer holds the zeros of construction), no later call changes
\* the value of gicr_typers.
C19_TypersSetOnce ==
    [][(txn = "set_gicr_typers" \/ gicr_typers # Zeros(vcpu_count)) =>
            gicr_typers' = gicr_typers]_vars

\* ------------------------------------------------ claims about device setup
\* The address attributes new() has to program: <<handle, attribute>>.
C20_AddrAttrs ==
    {<<GIC, "KVM_VGIC_V3_ADDR_TYPE_DIST">>, <<GIC, "KVM_VGIC_V3_ADDR_TYPE_REDIST">>}
    \cup (IF HasIts(kind) THEN {<<ITS, "KVM_VGIC_ITS_ADDR_TYPE">>} ELSE {})

IsAddrAttr(e, pa) ==
    e.fn = "set_device_attribute" /\ e.grp = ADDR /\ e.dev = pa[1] /\ e.attr = pa[2]

IsInitComplete(e) ==
    e.fn = "set_device_attribute" /\ e.grp = CTRL /\ e.attr = "KVM_DEV_ARM_VGIC_CTRL_INIT"

\* C20: new() of KvmGICv3 and KvmGICv3ITS stops at the first step that fails and
\* returns that error; every address attribute (distributor base, redistributor
\* base, for the ITS the MSI base) is set, once and successfully, before any
\* init-complete control attribute is issued, and none is set after one; the
\* init-complete attribute is issued at most once per device; finalize_device
\* (init complete on the GIC handle) is the last step, after every step of
\* init_device_attributes; and a new() that returns Ok has issued it.
C20_TwoPhaseSetup ==
    txn = "new" =>
        /\ AllButLastOk(log)
        /\ (outcome.kind = "Err") = (Len(log) > 0 /\ ~log[Len(log)].ok)
        /\ \A i \in 1..Len(log) :
            IsInitComplete(log[i]) =>
                \A pa \in C20_AddrAttrs :
                    /\ \E j \in 1..(i - 1) : IsAddrAttr(log[j], pa) /\ log[j].ok
                    /\ \A j \in i..Len(log) : ~IsAddrAttr(log[j], pa)
        /\ \A pa \in C20_AddrAttrs :
            Cardinality({i \in 1..Len(log) : IsAddrAttr(log[i], pa)}) <= 1
        /\ \A d \in {GIC, ITS} :
            Cardinality({i \in 1..Len(log) : IsInitComplete(log[i]) /\ log[i].dev = d}) <= 1
        /\ \A i \in 1..Len(log) :
            (IsInitComplete(log[i]) /\ OnGic(log[i])) =>
                /\ i = Len(log)
                /\ HasIts(kind) =>
                    \E j \in 1..(i - 1) : IsInitComplete(log[j]) /\ OnIts(log[j]) /\ log[j].ok
        /\ outcome.kind = "Ok" =>
            /\ Len(log) > 0
            /\ IsInitComplete(log[Len(log)]) /\ OnGic(log[Len(log)]) /\ log[Len(log)].ok

\* C20 witness: a new() of the GICv3+ITS variant that ran both phases to the end.
C20_Witness ==
    /\ txn = "new"
    /\ HasIts(kind)
    /\ outcome.kind = "Ok"
    /\ \E i \in 1..Len(log) : IsInitComplete(log[i]) /\ OnIts(log[i])
    /\ \E i \in 1..Len(log) : IsInitComplete(log[i]) /\ OnGic(log[i])

\* C21: misuse of the two-phase setup is an error result and never a panic: a call
\* of init_device_attributes that returns Ok is the first one on its object, a call
\* of finalize_device that returns Ok is the first one on its object and comes after
\* an init_device_attributes that returned Ok, and neither call panics.
C21_SetupMisuseIsError ==
    /\ (txn = "init_device_attributes") =>
            /\ outcome.kind # "Panic"
            /\ (outcome.kind = "Ok") => (objects[Self].inits <= 1)
    /\ (txn = "finalize_device") =>
            /\ outcome.kind # "Panic"
            /\ (outcome.kind = "Ok") =>
                    (objects[Self].finals <= 1 /\ objects[Self].inits >= 1)

\* C22: every variant create_gic returns has had its address attributes set on its
\* handle(s) and the init-complete control attribute issued after them, inside the
\* call that returned it.
C22_CreateGicRunsSetup ==
    (txn = "create_gic" /\ outcome.kind = "Ok") =>
        /\ \A pa \in C20_AddrAttrs : \E j \in 1..Len(log) : IsAddrAttr(log[j], pa) /\ log[j].ok
        /\ \E i \in 1..Len(log) :
            /\ IsInitComplete(log[i]) /\ OnGic(log[i]) /\ log[i].ok
            /\ \A j \in 1..Len(log) : (\E pa \in C20_AddrAttrs : IsAddrAttr(log[j], pa)) => j < i
        /\ \A i \in DOMAIN objects : objects[i].inits >= 1 /\ objects[i].finals >= 1

\* The handles an object holds.
HandlesOf(o) == {o.gic, o.its} \ {None}

\* C23: at any time no two variant objects hold the same GIC or ITS device handle.
C23_HandlesNotShared ==
    \A i, j \in DOMAIN objects :
        i # j => HandlesOf(objects[i]) \cap HandlesOf(objects[j]) = {}

\* C24: a snapshot returned by snapshot() holds exactly one data section, whose key
\* is id() followed by "-section"; restore looks the section up under that key, so
\* it finds the section of a snapshot this component's snapshot() returned and of
\* every snapshot that has a section under that key. This holds for all three
\* components, whatever id string the Gic was constructed with.
C24_SectionKeyedById ==
    /\ (txn = "snapshot" /\ outcome.kind = "Ok") =>
            DOMAIN snap.snapshot_data = {id(kind) \o "-section"}
    /\ (txn = "restore"
            /\ (restore_arg.held
                \/ (id(kind) \o "-section") \in DOMAIN restore_arg.snapshot.snapshot_data)) =>
            ~(outcome.kind = "Err" /\ outcome.msg = NotFoundMsg)

\* What the accessors return, by variant.
C25_AccessorValues ==
    /\ (txn = "fdt_compatibility") => (outcome.msg = "arm,gic-v3")
    /\ (txn = "fdt_maint_irq") => (outcome.msg = 9)
    /\ (txn = "msi_compatible") => (outcome.msg = (kind = "KvmGICv3ITS"))
    /\ (txn = "msi_compatibility") =>
            (outcome.msg = IF kind = "KvmGICv3ITS" THEN "arm,gic-v3-its" ELSE "")
    /\ (txn = "msi_properties") =>
            (Len(outcome.msg) = IF kind = "KvmGICv3ITS" THEN 2 ELSE 0)
    /\ (txn = "its_device") => ((outcome.msg # None) = (kind = "KvmGICv3ITS"))

\* C25: the accessors are constant and free of side effects: both variants report
\* "arm,gic-v3" and maintenance interrupt 9; GICv3 reports msi_compatible false, an
\* empty MSI compatibility string, empty msi_properties and no ITS handle; GICv3+ITS
\* reports msi_compatible true, "arm,gic-v3-its", a two-element msi_properties and an
\* ITS handle; and no accessor issues a device operation or changes the state of
\* the variant or of its device.
C25_AccessorsConstantAndPure ==
    /\ []C25_AccessorValues
    /\ [][(txn' \in AccessorNames) =>
            /\ log' = <<>>
            /\ UNCHANGED <<kind, vcpu_count, gicr_typers, properties, msi_properties,
                           dev, objects>>]_vars

\* C25 witness: the GICv3+ITS variant, after its typers were set and the guest has
\* run, is asked for its MSI compatibility string and answers "arm,gic-v3-its".
C25_Witness ==
    /\ txn = "msi_compatibility"
    /\ kind = "KvmGICv3ITS"
    /\ outcome.msg = "arm,gic-v3-its"
    /\ gicr_typers # Zeros(vcpu_count)
    /\ dev # DevImage(kind, 0, vcpu_count)

\* C29: pause, resume and the transport hooks are no-ops: they return Ok, issue no
\* device operation and leave gicr_typers, properties, vcpu_count and the device's
\* register state unchanged.
C29_HooksAreNoOps ==
    [][(txn' \in HookNames) =>
        /\ outcome'.kind = "Ok"
        /\ log' = <<>>
        /\ UNCHANGED <<kind, vcpu_count, gicr_typers, properties, msi_properties,
                       dev, device_entity, objects>>]_vars

\* C29 witness: the GICv3+ITS variant is paused while its device holds guest state.
C29_Witness ==
    /\ txn = "pause"
    /\ kind = "KvmGICv3ITS"
    /\ dev # DevImage(kind, 0, vcpu_count)
    /\ outcome.kind = "Ok"

\* The attribute ids of the ITS registers in the kernel ABI.
C26_Abi ==
    [r \in {"GITS_CTLR", "GITS_IIDR", "GITS_CBASER", "GITS_CWRITER", "GITS_CREADR"} |->
        CASE r = "GITS_CTLR" -> 0
          [] r = "GITS_IIDR" -> 4
          [] r = "GITS_CBASER" -> 128
          [] r = "GITS_CWRITER" -> 136
          [] r = "GITS_CREADR" -> 144]

C26_AbiBaser == {256 + 8 * i : i \in 0..7}

C26_AbiIds == {C26_Abi[r] : r \in DOMAIN C26_Abi} \cup C26_AbiBaser

\* The accesses of the ITS register group in the log.
C26_RegOps == {i \in 1..Len(log) : log[i].grp = ITS_REGS}

\* C26: capture and restore of the GICv3+ITS variant address the ITS registers by
\* the ids of the ABI (CTLR 0x0000, IIDR 0x0004, CBASER 0x0080, CWRITER 0x0088,
\* CREADR 0x0090, BASER[i] 0x0100 + 8*i for i in 0..7), the same in both directions;
\* the thirteen ids are pairwise distinct, a complete capture reads and a complete
\* restore writes exactly these thirteen, and its_baser[i] of the record is what
\* was read from BASER[i] and is what is written to BASER[i], for the same i.
C26_ItsAttributeIds ==
    (kind = "KvmGICv3ITS" /\ txn \in {"snapshot", "restore"}) =>
        /\ Cardinality(C26_AbiIds) = 13
        /\ \A i \in C26_RegOps :
            /\ log[i].dev = ITS
            /\ log[i].set = (txn = "restore")
            /\ IF log[i].attr = "GITS_BASER"
               THEN log[i].off \in C26_AbiBaser
               ELSE log[i].attr \in DOMAIN C26_Abi /\ log[i].off = C26_Abi[log[i].attr]
        /\ \A i, j \in C26_RegOps : (i # j) => (log[i].off # log[j].off)
        /\ (outcome.kind = "Ok") => ({log[i].off : i \in C26_RegOps} = C26_AbiIds)
        /\ (txn = "restore") =>
                \A i \in C26_RegOps : \A b \in 0..7 :
                    (log[i].off = 256 + 8 * b) =>
                        (log[i].val = <<Deserialize(kind, ArgSection).its_baser[b + 1]>>)
        /\ (txn = "snapshot") =>
                /\ \A i, j \in C26_RegOps :
                        (i < j /\ log[i].attr = "GITS_BASER" /\ log[j].attr = "GITS_BASER")
                            => (log[i].off < log[j].off)
                /\ (outcome.kind = "Ok" /\ inplace_reads) =>
                        \A i \in C26_RegOps : \A b \in 0..7 :
                            (log[i].off = 256 + 8 * b) =>
                                (log[i].val = <<engine.rec[1].its_baser[b + 1]>>)

\* C26 witness: a complete GICv3+ITS restore of a source VM's snapshot whose eight
\* BASER values differ from each other, each written to its own register.
C26_Witness ==
    /\ kind = "KvmGICv3ITS"
    /\ txn = "restore"
    /\ outcome.kind = "Ok"
    /\ restore_arg.image # 0
    /\ \A a, b \in 1..8 :
            (a # b) => (Deserialize(kind, ArgSection).its_baser[a]
                            # Deserialize(kind, ArgSection).its_baser[b])
    /\ Cardinality({i \in C26_RegOps : log[i].attr = "GITS_BASER" /\ log[i].ok}) = 8

\* The device operation of a log entry: what was called, on which handle, with
\* which attribute and arguments.
C27_Op(e) == <<e.fn, e.dev, e.grp, e.attr, e.off, e.set, e.arg>>

\* C27: nothing is retried: within one capture or one restore transaction of any
\* of the three components each device operation is issued at most once, and an
\* operation the device rejected is the last one of the transaction.
C27_NothingRetried ==
    (txn \in {"snapshot", "restore"}) =>
        /\ \A i, j \in 1..Len(log) : (i # j) => (C27_Op(log[i]) # C27_Op(log[j]))
        /\ \A i \in 1..Len(log) : (~log[i].ok) => (i = Len(log))

\* C27 witness: a restore whose third operation was rejected: three operations were
\* issued, all different, and the transaction ended in an error.
C27_Witness ==
    /\ txn = "restore"
    /\ Len(log) = 3
    /\ ~log[3].ok
    /\ outcome.kind = "Err"

\* C28: every capture and every restore transaction ends, after a bounded number of
\* device operations, in success or in an error result, and in no other way,
\* whichever device operations fail.
C28_OkOrErr ==
    (txn \in {"snapshot", "restore"}) =>
        outcome.kind \in {"Ok", "Err"}

\* The handles the variant requires were given to create_device.
C30_HandlesPresent == handles.gic # None /\ (HasIts(kind) => handles.its # None)

\* The object create_device returned: vcpu_count zeros, the properties computed
\* from vcpu_count, the handles it was given, an ITS handle only in the ITS variant.
C30_Fields ==
    /\ outcome.kind = "Ok"
    /\ gicr_typers = Zeros(vcpu_count)
    /\ properties = <<get_dist_addr, get_dist_size, get_redists_addr(vcpu_count),
                      get_redists_size(vcpu_count)>>
    /\ msi_properties =
            (IF HasIts(kind) THEN <<get_msi_addr(vcpu_count), get_msi_size>> ELSE <<>>)
    /\ Len(objects) = 1
    /\ objects[1].gic = handles.gic
    /\ objects[1].its = (IF HasIts(kind) THEN handles.its ELSE None)

C32_GicBlock(st) ==
    [dist |-> st.dist, rdist |-> st.rdist, icc |-> st.icc, gicd_ctlr |-> st.gicd_ctlr]

\* C32: the GICv3+ITS variant refines the GICv3 variant on the GIC block: the
\* operations a KvmGICv3ITS capture (restore) issues on the GIC handle are, in
\* order and with their values, those a KvmGICv3 capture (restore) issues on the
\* same device with the same gicr_typers and the same operations rejected, and
\* the dist, rdist, icc and gicd_ctlr fields of the two state records are equal.
C32_ItsRefinesGicBlock ==
    (kind = "KvmGICv3ITS" /\ txn \in {"snapshot", "restore"} /\ engine.called) =>
        \E g \in {SelectSeq(log, OnGic)} :
        \E F \in {{i \in 1..Len(g) : ~g[i].ok}} :
            /\ (txn = "snapshot") =>
                    \E r \in {state("KvmGICv3", TRUE, dev, gicr_typers, F, TRUE)} :
                        /\ r.log = g
                        /\ (engine.result = "Ok") =>
                                /\ r.res.result = "Ok"
                                /\ r.res.rec[1] = C32_GicBlock(engine.rec[1])
            /\ (txn = "restore") =>
                    \E st \in {C32_GicBlock(Deserialize(kind, ArgSection))} :
                    \E r \in {set_state("KvmGICv3", TRUE, dev, gicr_typers, st, F)} :
                        r.log = g

\* C32 witness: a complete GICv3+ITS capture of a device that holds guest state,
\* with the typers of its vCPUs: five operations on the GIC handle, thirteen on the
\* ITS handle.
C32_Witness ==
    /\ kind = "KvmGICv3ITS"
    /\ txn = "snapshot"
    /\ engine.result = "Ok"
    /\ gicr_typers = TypersOf(vcpu_count)
    /\ engine.rec[1].gicd_ctlr # 0
    /\ Len(SelectSeq(log, OnGic)) = 5
    /\ Len(SelectSeq(log, OnIts)) = 13

\* The ITS registers in the order the capture reads them.
C33_ReadOrder ==
    [i \in 1..8 |-> 256 + 8 * (i - 1)] \o <<0, 128, 144, 136, 4>>

\* C33: in a GICv3+ITS capture the ITS registers are read only after all five
\* operations of the GIC block succeeded, in the order BASER[0..7], CTLR, CBASER,
\* CREADR, CWRITER, IIDR, and every ITS field of the returned record holds the
\* value the ITS device returned for its register.
C33_ItsCaptureOrderAndValues ==
    (kind = "KvmGICv3ITS" /\ txn = "snapshot") =>
        \E t \in {SelectSeq(log, OnIts)} :
            /\ (Len(t) > 0) =>
                    /\ Len(log) = 5 + Len(t)
                    /\ \A i \in 1..5 : OnGic(log[i]) /\ log[i].ok
            /\ Len(t) <= Len(C33_ReadOrder)
            /\ \A i \in 1..Len(t) :
                    t[i].grp = ITS_REGS /\ ~t[i].set /\ t[i].off = C33_ReadOrder[i]
            /\ (engine.result = "Ok") =>
                    /\ Len(t) = Len(C33_ReadOrder)
                    /\ \A i \in 1..8 : <<engine.rec[1].its_baser[i]>> = t[i].val
                    /\ <<engine.rec[1].its_ctlr>> = t[9].val
                    /\ <<engine.rec[1].its_cbaser>> = t[10].val
                    /\ <<engine.rec[1].its_creadr>> = t[11].val
                    /\ <<engine.rec[1].its_cwriter>> = t[12].val
                    /\ <<engine.rec[1].its_iidr>> = t[13].val

\* The operations of the GIC block and of the ITS block, by the function called.
C34_GicFns ==
    {"save_pending_tables", "read_ctlr", "get_dist_regs", "get_redist_regs", "get_icc_regs",
     "write_ctlr", "set_dist_regs", "set_redist_regs", "set_icc_regs"}

C34_ItsFns == {"gic_v3_its_attr_access_32", "gic_v3_its_attr_access_64"}

\* The init-complete control attributes of the log, in order.
C34_Inits == SelectSeq(log, IsInitComplete)

\* C34: handle routing in the GICv3+ITS variant: in new(), capture and restore,
\* every distributor, redistributor and CPU-interface operation, the pending-table
\* flush, the distributor and redistributor base attributes and the final
\* init-complete attribute go to the GIC handle; every ITS register access, the
\* restore-tables control op, the MSI base attribute and the ITS init control
\* attribute go to the ITS handle; nothing else is issued on either handle.
C34_HandleRouting ==
    (kind = "KvmGICv3ITS" /\ txn \in {"new", "snapshot", "restore"}) =>
        /\ \A i \in 1..Len(log) :
            /\ log[i].fn \in C34_GicFns \cup C34_ItsFns \cup {"set_device_attribute", "init_device"}
            /\ (log[i].fn \in C34_GicFns) => (log[i].dev = GIC)
            /\ (log[i].fn \in C34_ItsFns) =>
                    /\ log[i].dev = ITS
                    /\ log[i].grp = ITS_REGS \/ RestoreTables(log[i])
            /\ (log[i].fn = "init_device") => (log[i].dev = "vm")
            /\ (log[i].fn = "set_device_attribute" /\ log[i].grp = ADDR) =>
                    \/ log[i].dev = GIC /\ log[i].attr \in {"KVM_VGIC_V3_ADDR_TYPE_DIST",
                                                              "KVM_VGIC_V3_ADDR_TYPE_REDIST"}
                    \/ log[i].dev = ITS /\ log[i].attr = "KVM_VGIC_ITS_ADDR_TYPE"
            /\ (log[i].fn = "set_device_attribute" /\ log[i].grp # ADDR) => IsInitComplete(log[i])
        /\ Len(C34_Inits) <= 2
        /\ (Len(C34_Inits) >= 1) => (C34_Inits[1].dev = ITS)
        /\ (Len(C34_Inits) = 2) => (C34_Inits[2].dev = GIC)

\* C34 witness: a complete restore of a GICv3+ITS variant, with the CPU-interface
\* write on the GIC handle and the restore-tables op on the ITS handle.
C34_Witness ==
    /\ kind = "KvmGICv3ITS"
    /\ txn = "restore"
    /\ outcome.kind = "Ok"
    /\ \E i \in 1..Len(log) : RestoreTables(log[i])
    /\ \E i \in 1..Len(log) : log[i].fn = "set_icc_regs" /\ log[i].dev = GIC

\* C35: capture is read-only on register state: apart from the pending-table flush
\* a capture issues only get operations, it changes neither the registers of the
\* device nor gicr_typers, properties or vcpu_count of the component, and a capture
\* that directly follows a capture returns the same state record.
C35_CaptureReadOnly ==
    [][(txn' = "snapshot") =>
        /\ \A i \in 1..Len(log') : (log'[i].set) => (log'[i].fn = "save_pending_tables")
        /\ UNCHANGED <<dev, kind, vcpu_count, gicr_typers, properties, msi_properties>>
        /\ (txn = "snapshot" /\ engine.result = "Ok" /\ engine'.result = "Ok") =>
                (engine'.rec = engine.rec)]_vars

\* C35 witness: a complete capture, with the typers of the vCPUs, of a device that
\* holds guest state; the caller holds the snapshot it returned.
C35_Witness ==
    /\ txn = "snapshot"
    /\ engine.result = "Ok"
    /\ dev = DevImage(kind, 1, vcpu_count)
    /\ gicr_typers = TypersOf(vcpu_count)
    /\ engine.rec[1].gicd_ctlr # 0
    /\ restore_arg = NoArg
    /\ snap # NoSnapshot

\* The snapshot restore() was called with is one the other variant captured.
C36_FromOtherVariant ==
    \/ kind = "KvmGICv3"
        /\ restore_arg.snapshot.id = "gic-v3-its"
        /\ DOMAIN restore_arg.snapshot.snapshot_data = {"gic-v3-its-section"}
    \/ kind = "KvmGICv3ITS"
        /\ restore_arg.snapshot.id = "gic-v3"
        /\ DOMAIN restore_arg.snapshot.snapshot_data = {"gic-v3-section"}

\* C36: the identifiers of the two variants are distinct ("gic-v3", "gic-v3-its"),
\* and a snapshot captured by one variant is never accepted by the other: the
\* restore fails with the "section not found" error, set_state is not entered and
\* no device operation is issued.
C36_OtherVariantRejected ==
    /\ (kind = "KvmGICv3") => (gic_id = "gic-v3")
    /\ (kind = "KvmGICv3ITS") => (gic_id = "gic-v3-its")
    /\ (txn = "restore" /\ C36_FromOtherVariant) =>
            /\ outcome = [kind |-> "Err", variant |-> "Restore", msg |-> NotFoundMsg]
            /\ engine = NotCalled
            /\ log = <<>>

\* C36 witness: a GICv3+ITS variant is given a snapshot a GICv3 variant captured
\* from a device that holds guest state.
C36_Witness ==
    /\ kind = "KvmGICv3ITS"
    /\ txn = "restore"
    /\ C36_FromOtherVariant
    /\ Deserializes("KvmGICv3", restore_arg.snapshot.snapshot_data["gic-v3-section"])
    /\ outcome.kind = "Err"

\* The codecs that take the typers.
C37_TyperFns == {"get_redist_regs", "get_icc_regs", "set_redist_regs", "set_icc_regs"}

\* C37: capture and restore of all three components pass to the redistributor and
\* CPU-interface codecs the gicr_typers the component holds when the transaction
\* starts, the same sequence to both; that value is vcpu_count zeros after
\* construction and changes only in set_gicr_typers.
C37_TypersOfTransaction ==
    /\ gicr_typers = Zeros(vcpu_count)
    /\ [][/\ (gicr_typers' # gicr_typers) => (txn' = "set_gicr_typers")
          /\ (txn' \in {"snapshot", "restore"}) =>
                \A i \in 1..Len(log') :
                    (log'[i].fn \in C37_TyperFns) => (log'[i].arg = gicr_typers)]_vars

\* C37 witness: a complete restore after set_gicr_typers gave the component the
\* typers of its two vCPUs: the redistributor and the CPU-interface write both
\* carry them.
C37_Witness ==
    /\ txn = "restore"
    /\ outcome.kind = "Ok"
    /\ vcpu_count = 2
    /\ gicr_typers = TypersOf(2)
    /\ \E i, j \in 1..Len(log) :
        /\ log[i].fn = "set_redist_regs" /\ log[i].arg = TypersOf(2)
        /\ log[j].fn = "set_icc_regs" /\ log[j].arg = TypersOf(2)

\* The regions recomputed from vcpu_count: the distributor (64 KiB) ends at the
\* start of the mapped-IO area, the redistributors (128 KiB per vCPU) end at the
\* distributor, the ITS (128 KiB) ends at the redistributors.
C38_Recomputed ==
    (kind # "Gic") =>
        /\ properties = <<MAPPED_IO_START - 65536, 65536,
                          MAPPED_IO_START - 65536 - vcpu_count * 131072,
                          vcpu_count * 131072>>
        /\ msi_properties =
                (IF kind = "KvmGICv3ITS"
                 THEN <<MAPPED_IO_START - 65536 - vcpu_count * 131072 - 131072, 131072>>
                 ELSE <<>>)

\* C38: properties, msi_properties and vcpu_count of a variant are fixed at
\* construction: no set_gicr_typers, snapshot, restore, pause or resume (nor any
\* other call) changes them, and at every moment they equal the values recomputed
\* from vcpu_count by the layout formulas.
C38_PropertiesFixed ==
    /\ []C38_Recomputed
    /\ [][UNCHANGED <<properties, msi_properties, vcpu_count>>]_vars

\* C38 witness: a GICv3+ITS variant of two vCPUs that has had its typers set, whose
\* device holds guest state, and that has then been paused.
C38_Witness ==
    /\ kind = "KvmGICv3ITS"
    /\ vcpu_count = 2
    /\ txn = "pause"
    /\ gicr_typers = TypersOf(2)
    /\ dev # DevImage(kind, 0, vcpu_count)
    /\ Len(msi_properties) = 2

\* ------------------------------------------- claims about the ACPI tables
\* The slices in guest memory that are tables (the RSDP is a pointer, no table).
AcpiPlaced == SelectSeq(guest_mem, LAMBDA slice : slice.table.sig # "RSD PTR ")

\* The signatures create_acpi_tables places for a build and a NUMA node list, in
\* the order DSDT, FACP, MADT, GTDT, MCFG, SPCR, SRAT, SLIT, IORT, XSDT.
AcpiOrder ==
    LET aarch64 == acpi_env.target_arch = "aarch64"
        numa == DOMAIN numa_nodes # {}
    IN  <<"DSDT", "FACP", "APIC">>
        \o (IF aarch64 THEN <<"GTDT">> ELSE <<>>)
        \o <<"MCFG">>
        \o (IF aarch64 THEN <<"SPCR">> ELSE <<>>)
        \o (IF numa THEN <<"SRAT", "SLIT">> ELSE <<>>)
        \o (IF aarch64 THEN <<"IORT">> ELSE <<>>)
        \o <<"XSDT">>

\* C39: the tables create_acpi_tables has written lie back to back from the end
\* of the RSDP, in the order DSDT, FACP, MADT, GTDT (aarch64), MCFG, SPCR
\* (aarch64), SRAT and SLIT (with NUMA nodes only), IORT (aarch64), XSDT: each
\* starts where the one before it ends, so no two overlap; and once the call has
\* returned, every table of that order is placed, the XSDT lists the offsets of
\* all of them but the DSDT and itself in placement order, and the RSDP, at the
\* address returned, holds the offset of the XSDT.
C39_TablesBackToBack ==
    LET placed == AcpiPlaced
        n == Len(placed)
    IN  /\ n <= Len(AcpiOrder)
        /\ \A i \in 1..n : placed[i].table.sig = AcpiOrder[i]
        /\ n >= 1 => placed[1].addr = RSDP_POINTER(acpi_env.target_arch) + RSDP_len
        /\ \A i \in 2..n : placed[i].addr = placed[i - 1].addr + placed[i - 1].table.len
        /\ \A i, j \in 1..n :
              i < j => placed[i].addr + placed[i].table.len <= placed[j].addr
        /\ acpi_ret.kind = "Ok" =>
              /\ n = Len(AcpiOrder)
              /\ placed[n].table.body = [i \in 1..(n - 2) |-> placed[i + 1].addr]
              /\ Len(guest_mem) = n + 1
              /\ guest_mem[n + 1].addr = acpi_ret.addr
              /\ acpi_ret.addr = RSDP_POINTER(acpi_env.target_arch)
              /\ guest_mem[n + 1].table.sig = "RSD PTR "
              /\ guest_mem[n + 1].table.body = <<placed[n].addr>>

\* The call returned on an aarch64 build with NUMA nodes: all ten tables are placed.
C39_Witness ==
    /\ acpi_ret.kind = "Ok"
    /\ acpi_env.target_arch = "aarch64"
    /\ DOMAIN numa_nodes # {}
    /\ Len(AcpiPlaced) = 10

\* The SLIT tables in guest memory.
AcpiSlits == {i \in 1..Len(guest_mem) : guest_mem[i].table.sig = "SLIT"}

AcpiSrats == {i \in 1..Len(guest_mem) : guest_mem[i].table.sig = "SRAT"}

\* The number of existing nodes whose id is below node_id.
NodeRank(node_id) == Cardinality({i \in DOMAIN numa_nodes : i < node_id})

\* C40: a SLIT written by create_acpi_tables holds the number of existing NUMA
\* nodes and one distance for every ordered pair of them: 10 from a node to
\* itself, the distance the source node configures for the destination when it
\* configures one, 20 otherwise; no SRAT and no SLIT is written for an empty node
\* list, and a call that returns with a non-empty list has written one of each.
C40_SlitDistances ==
    LET n == Cardinality(DOMAIN numa_nodes)
    IN  /\ \A s \in AcpiSlits :
              LET slit == guest_mem[s].table
              IN  /\ slit.body[1] = n
                  /\ Len(slit.body) = 1 + n * n
                  /\ slit.len = 36 + 8 + n * n
                  /\ \A from, to \in DOMAIN numa_nodes :
                        slit.body[1 + NodeRank(from) * n + NodeRank(to) + 1].dist =
                            IF from = to THEN 10
                            ELSE IF to \in DOMAIN numa_nodes[from].distances
                                 THEN numa_nodes[from].distances[to]
                                 ELSE 20
        /\ n = 0 => AcpiSlits = {} /\ AcpiSrats = {}
        /\ (acpi_ret.kind = "Ok" /\ n # 0) =>
              Cardinality(AcpiSlits) = 1 /\ Cardinality(AcpiSrats) = 1

\* The call returned with two nodes: one configures a distance to itself and to
\* the other node, the other configures no distance to the first.
C40_Witness ==
    /\ acpi_ret.kind = "Ok"
    /\ AcpiSlits # {}
    /\ \E from, to \in DOMAIN numa_nodes :
          /\ from # to
          /\ from \in DOMAIN numa_nodes[from].distances
          /\ to \in DOMAIN numa_nodes[from].distances
          /\ from \notin DOMAIN numa_nodes[to].distances

====
